---- MODULE Spec2Model ----
(***************************************************************************)
(* A model of the news pipeline (rohanc19/news_pipeline): the helpers of   *)
(* utils.py (deduplicate_markets, limit_markets_per_category, checkpoint   *)
(* save/load), the orchestration of pipeline.py and                        *)
(* run_full_pipeline_30_per_category.py, and the answer validation of      *)
(* llm_service.py / langchain_integration.py.                              *)
(*                                                                         *)
(* Strings that the code inspects character by character (titles,          *)
(* descriptions, endTime) are tuples of one-character strings.             *)
(***************************************************************************)
EXTENDS Integers, Sequences, FiniteSets, TLC

VARIABLES
    \* ---- utils.py called on an arbitrary argument (SpecUtils) ----
    markets,        \* the caller's list of markets
    op,             \* the calls made so far on it
    arg,            \* the argument of the last call
    limit,          \* the limit of the last limit_markets_per_category call
    result,         \* what the last call returned
    \* ---- a pipeline run (Spec: run_pipeline, SpecFull: the full batch) ----
    entry,              \* the entry point that is running
    pc,                 \* where the run is
    error,              \* the exception that ended the run, "none" if none
    checkpoints,        \* checkpoints/<category>.json, per category
    output_file,        \* the output artifact on disk
    summary_file,       \* the summary artifact of the full batch on disk
    backup_file,        \* <output>_failed_api_send.json on disk
    cat_i,              \* index of the category being processed
    feed_i,             \* index of the next feed of that category
    all_articles,       \* the articles fetched for the category / feed
    pending,            \* indices of the articles whose result is not collected
    category_markets,   \* the category's accumulator of markets
    checkpoint_data,    \* what load_checkpoint returned for the category
    all_markets,        \* the run's aggregate list
    unique_markets,     \* the global dedupe pass's output
    limited_markets,    \* the global quota pass's output
    output,             \* the formatted output, once built
    returned,           \* TRUE once the entry point has returned
    fetches,            \* process_feed calls of this run, per category
    llm_calls,          \* process_article_with_llm calls of this run, per category
    collected,          \* the tasks collected so far: with a market, without
    successful,         \* what send_markets returned, None if it was not called
    executing,          \* indices of the articles a worker of the pool is processing
    saves,              \* save_checkpoint calls of this run_pipeline run, per category
    since_call,         \* tenths of a second the run slept since its last
                        \* generation call, -1 before the first call
    \* ---- config.py ----
    markets_per_category,   \* PIPELINE_CONFIG["markets_per_category"]
    \* ---- process_article_with_llm on one article (SpecLLM) ----
    llm_pc,             \* where the call is
    path,               \* the path that produced the returned value
    retry_count,        \* generate_prediction_content's retry_count
    api_calls,          \* calls made to the generation collaborator
    last_failure,       \* the last failed pass of generate_prediction_content's loop
    \* ---- enrich_article_data on one article (SpecEnrich) ----
    enrich_pc,          \* where the call is
    article_data,       \* the article's dictionary
    fetch_retry_count,  \* enrich_article_data's retry_count
    enrich_log,         \* the fetches and sleeps enrich_article_data made, in order
    found,              \* the text the successful round extracted, None if none did
    raw_article,        \* the caller's record as it was when it was passed
    enrich_returned,    \* the object enrich_article_data returned, "nothing" before
    \* ---- generate_market_id over one run (SpecIds) ----
    uuids,              \* the uuid4 values drawn so far, one per market created
    \* ---- the web service and its scheduler threads (SpecSched) ----
    scheduler_running,  \* app.py's global flag
    threads,            \* what each scheduler thread is doing
    category_file,      \* a category's checkpoint file in the working directory
    children,           \* live pipeline subprocesses of each thread's scheduler loop
    last_run,           \* what each thread's last run_pipeline call returned
    stop_returned,      \* POST /scheduler/stop has returned, and no
                        \* POST /scheduler/start was made since
    \* ---- process_feed on one feed (SpecFeed) ----
    feed_pc,            \* where the call is
    feed_config,        \* the FeedConfig it was called with
    feed_retry_count,   \* process_feed's retry_count
    fallback_i,         \* index of the next fallback URL of the for loop
    article_count,      \* number of articles in process_feed's list
    fetch_log,          \* the fetch_feed calls made, in order, with their results
    prediction_data     \* what process_article_with_llm returned

utilsVars == <<markets, op, arg, limit, result>>

diskVars == <<checkpoints, output_file, summary_file, backup_file>>

runVars ==
    <<entry, pc, error, cat_i, feed_i, all_articles, pending, category_markets,
      checkpoint_data, all_markets, unique_markets, limited_markets, output,
      returned, fetches, llm_calls, collected, successful>>

llmVars == <<llm_pc, path, retry_count, api_calls, prediction_data, last_failure>>

configVars == <<markets_per_category>>

enrichVars ==
    <<enrich_pc, article_data, fetch_retry_count, enrich_log, found, raw_article, enrich_returned>>

idVars == <<uuids>>

poolVars == <<executing>>

saveVars == <<saves>>

delayVars == <<since_call>>

schedVars ==
    <<scheduler_running, threads, category_file, children, last_run, stop_returned>>

feedVars ==
    <<feed_pc, feed_config, feed_retry_count, fallback_i, article_count, fetch_log>>

vars == <<utilsVars, diskVars, runVars, llmVars, configVars, enrichVars, idVars, feedVars, poolVars, saveVars, schedVars, delayVars>>

(***************************************************************************)
(* Bounds of the model.                                                    *)
(***************************************************************************)
MaxLen == 3         \* longest list of markets handed to a utils.py helper
MaxLimit == 2       \* largest limit handed to limit_markets_per_category
MaxArticles == 1    \* most articles one process_feed call yields
\* largest per-category quota: PIPELINE_CONFIG["markets_per_category"]
\* (config.py 200) and the literal 30 of run_full_pipeline_30_per_category.py
\* are 30 in the repository
MaxQuota == 2
MaxText == 3        \* longest summary, content or page text, in characters
\* the length a feed's content must exceed to be used as it is: 500 in the
\* code (article_processor.py 111)
content_threshold == 2
\* clean_article_text's default max_length: 8000 in the code (line 79)
max_length == 2
\* width of the worker pool: ThreadPoolExecutor(max_workers=5) in the code
\* (pipeline.py 85)
max_workers == 1
MaxThreads == 3     \* most scheduler threads the service is let start
MaxFallbacks == 2    \* most fallback URLs a FeedConfig has
MaxCreated == 3     \* most markets create_market_object creates in one run
uuid_hex_len == 3   \* hex digits of a uuid4: 32 in the code
id_hex_len == 2     \* hex digits kept in a market id: 8 in the code (line 28)

(***************************************************************************)
(* Market records.  Only the fields utils.py reads are kept.               *)
(***************************************************************************)
Titles == { <<"a">>, <<"A", " ">>, <<"b">> }
Descriptions == { <<"a">>, <<"A">> }
Categories == { "Crypto", "Sports" }

Markets == [title : Titles, description : Descriptions, category : Categories]

SeqsUpTo(S, n) == UNION { [1..k -> S] : k \in 0..n }

Min(a, b) == IF a < b THEN a ELSE b
Max(a, b) == IF a > b THEN a ELSE b

(***************************************************************************)
(* str.lower() and str.strip() on tuples of characters.                    *)
(***************************************************************************)
LowerChar(c) == IF c = "A" THEN "a" ELSE IF c = "B" THEN "b" ELSE c

lower(s) == [i \in 1..Len(s) |-> LowerChar(s[i])]

IsSpace(c) == c = " "

RECURSIVE lstrip(_)
lstrip(s) == IF s # <<>> /\ IsSpace(Head(s)) THEN lstrip(Tail(s)) ELSE s

RECURSIVE rstrip(_)
rstrip(s) ==
    IF s # <<>> /\ IsSpace(s[Len(s)]) THEN rstrip(SubSeq(s, 1, Len(s) - 1)) ELSE s

strip(s) == rstrip(lstrip(s))

\* market["title"].lower().strip()
normalized_title(market) == strip(lower(market.title))

\* hashlib.md5(content).hexdigest(): a digest of the content, taken to be
\* collision-free on the strings of the model.
generate_content_hash(content) == [md5 |-> content]

(***************************************************************************)
(* deduplicate_markets (utils.py 61-91).                                   *)
(***************************************************************************)
\* line 84 with only the title tested
IsUnseen_TitleOnly(title_hash, description_hash, seen_hashes) ==
    title_hash \notin seen_hashes

\* line 84: one set, seen_hashes, holds title and description digests alike
IsUnseen(title_hash, description_hash, seen_hashes) ==
    title_hash \notin seen_hashes /\ description_hash \notin seen_hashes

\* line 85 as unique_markets.insert(0, market)
KeepMarket_Prepend(kept, market) == <<market>> \o kept

\* line 85: unique_markets.append(market)
KeepMarket(kept, market) == Append(kept, market)

\* the loop of lines 75-88, from the i-th market on
RECURSIVE DedupLoop(_, _, _, _)
DedupLoop(ms, i, kept, seen_hashes) ==
    IF i > Len(ms) THEN kept
    ELSE LET market == ms[i]
             title_hash == generate_content_hash(normalized_title(market))
             description_hash == generate_content_hash(market.description)
         IN  IF IsUnseen(title_hash, description_hash, seen_hashes)
             THEN DedupLoop(ms, i + 1, KeepMarket(kept, market),
                            seen_hashes \cup {title_hash, description_hash})
             ELSE DedupLoop(ms, i + 1, kept, seen_hashes)

\* the loop started at the second market
deduplicate_markets_SkipFirst(ms) == DedupLoop(ms, 2, <<>>, {})

\* lines 71-73 and 91: fresh unique_markets and seen_hashes on every call
deduplicate_markets(ms) == DedupLoop(ms, 1, <<>>, {})

(***************************************************************************)
(* limit_markets_per_category (utils.py 93-122).                           *)
(***************************************************************************)
\* the keys of markets_by_category in insertion order (lines 108-113)
RECURSIVE CategoryOrder(_, _, _)
CategoryOrder(ms, i, keys) ==
    IF i > Len(ms) THEN keys
    ELSE IF \E k \in 1..Len(keys) : keys[k] = ms[i].category
         THEN CategoryOrder(ms, i + 1, keys)
         ELSE CategoryOrder(ms, i + 1, Append(keys, ms[i].category))

\* markets_by_category[category] (lines 108-113)
CategoryMarkets(ms, category) == SelectSeq(ms, LAMBDA m : m.category = category)

\* s[:n + 1]
SliceTo_OneMore(s, n) == SubSeq(s, 1, Min(Len(s), n + 1))

\* s[-n:]
SliceTo_Last(s, n) == SubSeq(s, Len(s) - Min(Len(s), n) + 1, Len(s))

\* Python's s[:n]: the first n items, or all but the last -n when n < 0
SliceTo(s, n) ==
    IF n >= 0 THEN SubSeq(s, 1, Min(Len(s), n))
    ELSE SubSeq(s, 1, Max(0, Len(s) + n))

\* the loop of lines 116-117 over the categories keys[k..]
RECURSIVE LimitLoop(_, _, _, _, _)
LimitLoop(ms, keys, k, lim, limited) ==
    IF k > Len(keys) THEN limited
    ELSE LimitLoop(ms, keys, k + 1, lim,
                   limited \o SliceTo(CategoryMarkets(ms, keys[k]), lim))

\* limit_markets_per_category without the slice of line 117
limit_markets_per_category_NoSlice(ms, lim) == ms

\* limit_markets_per_category keeping one market less per category
limit_markets_per_category_OneLess(ms, lim) ==
    LimitLoop(ms, CategoryOrder(ms, 1, <<>>), 1, Max(0, lim - 1), <<>>)

limit_markets_per_category(ms, lim) ==
    LimitLoop(ms, CategoryOrder(ms, 1, <<>>), 1, lim, <<>>)

(***************************************************************************)
(* Python values: an optional value (None or a value) and the outcome of a *)
(* call (a returned optional value, or an exception).                      *)
(***************************************************************************)
None == [raised |-> FALSE, some |-> FALSE, value |-> <<>>]
Return(v) == [raised |-> FALSE, some |-> TRUE, value |-> v]
Raise == [raised |-> TRUE, some |-> FALSE, value |-> <<>>]

\* bool(x) of an optional list: None and [] are both falsy
Truthy(x) == x.some /\ x.value # <<>>

(***************************************************************************)
(* Configuration (config.py), cut down to two categories and three feeds.  *)
(***************************************************************************)
RSS_FEEDS ==
    << [url |-> "bbc_sport", category |-> "Sports"],
       [url |-> "cointelegraph", category |-> "Crypto"],
       [url |-> "coindesk", category |-> "Crypto"] >>

\* the keys of feeds_by_category, in insertion order (pipeline.py 130-134)
FeedCategories == CategoryOrder(RSS_FEEDS, 1, <<>>)

\* feeds_by_category[category]
FeedsOf(category) == SelectSeq(RSS_FEEDS, LAMBDA f : f.category = category)

\* PIPELINE_CONFIG["max_retries"]
max_retries == 3

\* list(CATEGORY_STRUCTURE.keys()) (run_full_pipeline_30_per_category.py 42)
target_categories == << "Crypto", "Sports" >>

\* What the generator can answer for an article: nothing usable, or a
\* title and a description.  The second answer has the first one's title
\* up to case and trailing blanks, the third has the first one's description.
Answers ==
    { [title |-> <<"a">>, description |-> <<"x">>],
      [title |-> <<"A", " ">>, description |-> <<"y">>],
      [title |-> <<"b">>, description |-> <<"x">>] }

\* create_market_object (output_formatter.py 30-68): the fields the pipeline
\* reads, the category and the link copied from the source article
\* a market object without the link of its article
create_market_object_NoLink(prediction, article) ==
    [title |-> prediction.title,
     description |-> prediction.description,
     category |-> article.category,
     resolutionSource |-> << >>]

\* the article's "link" (feed_parser.py 123), one per entry of a feed
link(article) == << article.feed, article.n >>

create_market_object(prediction, article) ==
    [title |-> prediction.title,
     description |-> prediction.description,
     category |-> article.category,
     resolutionSource |-> link(article)]

\* format_final_output (output_formatter.py 91-110)
format_final_output(ms) == [eventsData |-> << [markets |-> ms] >>]

NoOutput == format_final_output(<<>>)

(***************************************************************************)
(* Checkpoint store (utils.py 124-159).  A file is absent, holds text that *)
(* is not JSON, or holds the JSON of a list of markets.                    *)
(***************************************************************************)
AbsentFile == [kind |-> "absent", data |-> <<>>]
CorruptFile == [kind |-> "corrupt", data |-> <<>>]
JsonFile(data) == [kind |-> "json", data |-> data]

WriteOutcomes == { "ok", "open_fails", "dump_fails" }

\* save_checkpoint: the file afterwards.  open(filename, 'w') truncates the
\* file, so a json.dump that fails leaves text that is not JSON; either
\* exception is caught (line 136) and nothing is raised.
save_checkpoint(data, file, outcome) ==
    CASE outcome = "ok" -> JsonFile(data)
      [] outcome = "open_fails" -> file
      [] outcome = "dump_fails" -> CorruptFile

\* load_checkpoint without the try/except of lines 152-159
load_checkpoint_NoExcept(file) ==
    IF file.kind = "absent" THEN None
    ELSE IF file.kind = "corrupt" THEN Raise
    ELSE Return(file.data)

\* load_checkpoint: None when the file does not exist (149-150) or does not
\* parse (157-159)
load_checkpoint(file) ==
    IF file.kind = "absent" THEN None
    ELSE IF file.kind = "corrupt" THEN None
    ELSE Return(file.data)

(***************************************************************************)
(* The state of the parts a specification does not exercise.               *)
(***************************************************************************)
UtilsIdle ==
    /\ markets = <<>>
    /\ op = <<>>
    /\ arg = <<>>
    /\ limit = 0
    /\ result = <<>>

NoCalls == [c \in Categories |-> 0]

\* no task of the pool has completed yet
NoneCollected == [market |-> 0, failed |-> 0]

\* the locals of a run before its first statement
RunReset ==
    /\ error = "none"
    /\ cat_i = 1
    /\ feed_i = 1
    /\ all_articles = <<>>
    /\ pending = {}
    /\ category_markets = <<>>
    /\ checkpoint_data = None
    /\ all_markets = <<>>
    /\ unique_markets = <<>>
    /\ limited_markets = <<>>
    /\ output = NoOutput
    /\ returned = FALSE
    /\ fetches = NoCalls
    /\ llm_calls = NoCalls
    /\ collected = NoneCollected
    /\ executing = {}
    /\ saves = NoCalls
    /\ since_call = -1
    /\ successful = None
    /\ markets_per_category = MaxQuota

\* no pass of the loop has failed
NoFailure == [origin |-> "none", class |-> "none", wait |-> 0, slot |-> 0]

LLMIdle ==
    /\ llm_pc = "idle"
    /\ path = "none"
    /\ retry_count = 0
    /\ api_calls = 0
    /\ prediction_data = None
    /\ last_failure = NoFailure

IdsIdle == uuids = <<>>

\* the service is not running: no thread, the flag as app.py 16 sets it
SchedIdle ==
    /\ scheduler_running = FALSE
    /\ threads = [t \in 1..MaxThreads |-> "unborn"]
    /\ category_file = "absent"
    /\ children = [t \in 1..MaxThreads |-> 0]
    /\ last_run = [t \in 1..MaxThreads |-> "none"]
    /\ stop_returned = FALSE

FeedIdle ==
    /\ feed_pc = "idle"
    /\ feed_config = [url |-> "primary", fallback_urls |-> None]
    /\ feed_retry_count = 0
    /\ fallback_i = 1
    /\ article_count = 0
    /\ fetch_log = <<>>

EnrichIdle ==
    /\ enrich_pc = "idle"
    /\ article_data = [summary |-> None, content |-> None, processed_content |-> None]
    /\ raw_article = article_data
    /\ enrich_returned = "nothing"
    /\ fetch_retry_count = 0
    /\ enrich_log = <<>>
    /\ found = None

PipelineIdle ==
    /\ entry = "none"
    /\ pc = "idle"
    /\ checkpoints = [c \in Categories |-> AbsentFile]
    /\ output_file = AbsentFile
    /\ summary_file = AbsentFile
    /\ backup_file = AbsentFile
    /\ RunReset
    /\ SchedIdle

(***************************************************************************)
(* SpecUtils: the two helpers applied to every list of at most MaxLen      *)
(* markets, alone and chained as run_pipeline chains them (157-163).       *)
(***************************************************************************)
InitUtils ==
    /\ markets \in SeqsUpTo(Markets, MaxLen)
    /\ op = <<>>
    /\ arg = <<>>
    /\ limit = 0
    /\ result = <<>>
    /\ PipelineIdle
    /\ LLMIdle
    /\ EnrichIdle
    /\ IdsIdle
    /\ FeedIdle

\* unique = deduplicate_markets(markets)
Deduplicate ==
    /\ op = <<>>
    /\ arg' = markets
    /\ result' = deduplicate_markets(markets)
    /\ op' = <<"dedup">>
    /\ UNCHANGED <<markets, limit, diskVars, runVars, llmVars, enrichVars, configVars,
                   idVars, feedVars, poolVars, saveVars, schedVars, delayVars>>

\* deduplicate_markets(unique): the helper applied to its own output
DeduplicateAgain ==
    /\ op = <<"dedup">>
    /\ arg' = result
    /\ result' = deduplicate_markets(result)
    /\ op' = <<"dedup", "dedup">>
    /\ UNCHANGED <<markets, limit, diskVars, runVars, llmVars, enrichVars, configVars,
                   idVars, feedVars, poolVars, saveVars, schedVars, delayVars>>

\* limit_markets_per_category(markets, lim)
Limit ==
    /\ op = <<>>
    /\ \E lim \in 0..MaxLimit :
        /\ limit' = lim
        /\ arg' = markets
        /\ result' = limit_markets_per_category(markets, lim)
    /\ op' = <<"limit">>
    /\ UNCHANGED <<markets, diskVars, runVars, llmVars, enrichVars, configVars, idVars,
                   feedVars, poolVars, saveVars, schedVars, delayVars>>

\* limit_markets_per_category(unique, lim), as run_pipeline does
LimitAfterDedup ==
    /\ op = <<"dedup">>
    /\ \E lim \in 0..MaxLimit :
        /\ limit' = lim
        /\ arg' = result
        /\ result' = limit_markets_per_category(result, lim)
    /\ op' = <<"dedup", "limit">>
    /\ UNCHANGED <<markets, diskVars, runVars, llmVars, enrichVars, configVars, idVars,
                   feedVars, poolVars, saveVars, schedVars, delayVars>>

NextUtils == Deduplicate \/ DeduplicateAgain \/ Limit \/ LimitAfterDedup

SpecUtils == InitUtils /\ [][NextUtils]_vars

LastOp == IF op = <<>> THEN "none" ELSE op[Len(op)]

(***************************************************************************)
(* Properties of deduplicate_markets.                                      *)
(***************************************************************************)
SameTitle(m1, m2) == normalized_title(m1) = normalized_title(m2)
SameDescription(m1, m2) == m1.description = m2.description

NoDuplicates(ms) ==
    \A i, j \in 1..Len(ms) :
        i < j => ~SameTitle(ms[i], ms[j]) /\ ~SameDescription(ms[i], ms[j])

\* C1: the output of deduplicate_markets holds no two entries with equal
\* case-folded, trimmed titles and no two entries with equal descriptions.
C1_DedupSoundness == LastOp = "dedup" => NoDuplicates(result)

\* a call that dropped a duplicate and retained two markets
C1_Witness == op = <<"dedup">> /\ Len(result) = 2 /\ Len(arg) > Len(result)

\* C2: deduplicate_markets applied to its own output returns that output
\* unchanged, element for element and in the same order.
C2_DedupIdempotent == op = <<"dedup", "dedup">> => result = arg

\* the second call, on an output that is shorter than the original list
C2_Witness ==
    op = <<"dedup", "dedup">> /\ Len(arg) = 2 /\ Len(markets) > Len(arg)

\* The rule C3 states: a title is compared with the titles retained so far
\* and a description with the descriptions retained so far.
RECURSIVE SeparateSetsDedup(_, _, _)
SeparateSetsDedup(ms, i, retained) ==
    IF i > Len(ms) THEN retained
    ELSE IF \E k \in 1..Len(retained) :
                SameTitle(retained[k], ms[i]) \/ SameDescription(retained[k], ms[i])
         THEN SeparateSetsDedup(ms, i + 1, retained)
         ELSE SeparateSetsDedup(ms, i + 1, Append(retained, ms[i]))

\* C3: deduplicate_markets discards a market if and only if an earlier
\* retained market has the same case-folded, trimmed title or the same
\* description, titles being compared with titles only and descriptions
\* with descriptions only.
C3_DiscardIffSameFingerprint ==
    LastOp = "dedup" => result = SeparateSetsDedup(arg, 1, <<>>)

RECURSIVE IsSubsequence(_, _)
IsSubsequence(s, t) ==
    IF s = <<>> THEN TRUE
    ELSE IF t = <<>> THEN FALSE
    ELSE IF Head(s) = Head(t) THEN IsSubsequence(Tail(s), Tail(t))
    ELSE IsSubsequence(s, Tail(t))

\* C4: the output of deduplicate_markets is a subsequence of its input in
\* the same order and starts with the input's first market; this is so for
\* every call, also one whose markets were all seen by the call before it
\* (no fingerprint outlives a call).
C4_DedupOrderAndFreshState ==
    LastOp = "dedup" =>
        /\ IsSubsequence(result, arg)
        /\ arg # <<>> => (result # <<>> /\ result[1] = arg[1])

\* a second call on markets the first call has seen, after a first call
\* that dropped one
C4_Witness ==
    op = <<"dedup", "dedup">> /\ result # <<>> /\ Len(markets) > Len(arg)

(***************************************************************************)
(* Properties of limit_markets_per_category.                               *)
(***************************************************************************)
CategoriesOf(ms) == { ms[i].category : i \in 1..Len(ms) }
CountIn(ms, category) == Len(CategoryMarkets(ms, category))

QuotaBound ==
    /\ \A c \in CategoriesOf(result) : CountIn(result, c) <= limit
    /\ CategoriesOf(arg) \subseteq CategoriesOf(result)

\* C5 as stated: for any limit L, every category of the output has at most
\* L markets and every category of the input is present in the output.
C5_QuotaBoundAnyLimit == LastOp = "limit" => QuotaBound

\* C5 amended: the same for any limit L >= 1.
C5_QuotaBoundPositiveLimit == (LastOp = "limit" /\ limit >= 1) => QuotaBound

\* a call with a positive limit that cut a category, on two categories
C5_Witness ==
    /\ LastOp = "limit"
    /\ limit >= 1
    /\ Len(result) < Len(arg)
    /\ Cardinality(CategoriesOf(arg)) = 2

FirstIndex(ms, category) ==
    CHOOSE i \in 1..Len(ms) :
        /\ ms[i].category = category
        /\ \A j \in 1..(i - 1) : ms[j].category # category

\* C6: limit_markets_per_category keeps, for each category, exactly the
\* first min(limit, count) markets of that category in input order, and
\* emits the categories in the order of their first appearance in the input.
C6_QuotaOrder ==
    LastOp = "limit" =>
        /\ \A c \in Categories :
              CategoryMarkets(result, c) =
                  SubSeq(CategoryMarkets(arg, c), 1, Min(limit, CountIn(arg, c)))
        /\ \A i, j \in 1..Len(result) :
              i < j => /\ result[i].category \in CategoriesOf(arg)
                       /\ result[j].category \in CategoriesOf(arg)
                       /\ FirstIndex(arg, result[i].category)
                              <= FirstIndex(arg, result[j].category)

\* interleaved categories, the first one cut to its first market
C6_Witness ==
    /\ op = <<"limit">>
    /\ limit = 1
    /\ Len(arg) = 3
    /\ arg[1].category = arg[3].category
    /\ arg[1].category # arg[2].category
    /\ arg[1] # arg[3]
    /\ result = <<arg[1], arg[2]>>

(***************************************************************************)
(* run_pipeline (pipeline.py 116-180) with process_category (61-114).      *)
(***************************************************************************)
Category == FeedCategories[cat_i]

\* The title of the k-th article of a feed.  The first articles of the
\* feeds of a category carry one story: their titles differ in case and in
\* trailing blanks only.  Later articles have titles of their own.
ArticleTitle(feed_index, k) ==
    IF k = 1
    THEN (IF feed_index = 1 THEN << "a" >> ELSE << "A", " " >>)
    ELSE (IF feed_index = 1 THEN << "b" >> ELSE << "b", "b" >>)

\* the articles a process_feed call returns: n of them, of the feed's category
FeedArticles(feed_index, n) ==
    [k \in 1..n |-> [category |-> Category, feed |-> feed_index, n |-> k,
                     title |-> ArticleTitle(feed_index, k)]]

\* What one fetch_feed call, followed by filter_recent_articles, gives
\* process_feed: None (transport or parse error, or a feed without entries,
\* feed_parser.py 38-48), or the number of recent entries (possibly 0).
FetchOutcomes == {None} \cup { Return(n) : n \in 0..MaxArticles }

\* the while loop of process_feed (feed_parser.py 156-174): the number of
\* articles extracted, from the first attempt that returned a feed
RECURSIVE ProcessFeedLoop(_, _)
ProcessFeedLoop(attempts, retries) ==
    IF retries >= max_retries THEN 0
    ELSE IF attempts[retries + 1].some THEN attempts[retries + 1].value
    ELSE ProcessFeedLoop(attempts, retries + 1)

\* process_feed (feed_parser.py 142-191): the number of articles returned.
\* No feed of RSS_FEEDS has fallback_urls (config.py 15-62), so the loop of
\* lines 176-188 is not entered.
process_feed(attempts) == ProcessFeedLoop(attempts, 0)

\* the for loop of line 139 left when a category came back without articles
NextCategory_StopWhenEmpty ==
    IF cat_i < Len(FeedCategories) /\ all_articles # <<>>
    THEN /\ cat_i' = cat_i + 1
         /\ pc' = "load"
    ELSE /\ cat_i' = cat_i
         /\ pc' = "global_dedupe"

\* the end of one pass of the for loop of line 139
NextCategory ==
    IF cat_i < Len(FeedCategories)
    THEN /\ cat_i' = cat_i + 1
         /\ pc' = "load"
    ELSE /\ cat_i' = cat_i
         /\ pc' = "global_dedupe"

Init ==
    /\ UtilsIdle
    /\ LLMIdle
    /\ EnrichIdle
    /\ IdsIdle
    /\ FeedIdle
    /\ entry = "run_pipeline"
    /\ pc = "start"
    /\ checkpoints = [c \in Categories |-> AbsentFile]
    /\ output_file = AbsentFile
    /\ summary_file = AbsentFile
    /\ backup_file = AbsentFile
    /\ RunReset
    /\ SchedIdle

\* lines 123-136: a run starts, the first one or, the process being started
\* again (scheduler.py), a later one that finds the files of the runs before;
\* its backup file, named after the run's timestamp (169-170), does not exist.
\* The configured quota is read when the process starts.
StartRun ==
    /\ entry = "run_pipeline"
    /\ pc \in {"start", "done"}
    /\ pc' = "load"
    /\ error' = "none"
    /\ cat_i' = 1
    /\ feed_i' = 1
    /\ all_articles' = <<>>
    /\ pending' = {}
    /\ category_markets' = <<>>
    /\ checkpoint_data' = None
    /\ all_markets' = <<>>
    /\ unique_markets' = <<>>
    /\ limited_markets' = <<>>
    /\ output' = NoOutput
    /\ returned' = FALSE
    /\ fetches' = NoCalls
    /\ llm_calls' = NoCalls
    /\ collected' = NoneCollected
    /\ successful' = None
    /\ backup_file' = AbsentFile
    /\ \E quota \in 1..MaxQuota : markets_per_category' = quota
    /\ saves' = NoCalls
    /\ since_call' = -1
    /\ UNCHANGED <<entry, utilsVars, llmVars, enrichVars, checkpoints, output_file, summary_file,
                   idVars, feedVars, poolVars, schedVars>>

\* lines 141-147: load the category's checkpoint; a truthy one is taken as
\* the category's markets, otherwise the category is processed
LoadCheckpoint ==
    /\ entry = "run_pipeline"
    /\ pc = "load"
    /\ LET r == load_checkpoint(checkpoints[Category])
       IN  /\ checkpoint_data' = r
           /\ IF r.raised
              THEN /\ pc' = "aborted"
                   /\ error' = "load_checkpoint"
                   /\ UNCHANGED <<cat_i, all_markets>>
              ELSE IF Truthy(r)
              THEN /\ all_markets' = all_markets \o r.value
                   /\ NextCategory
                   /\ UNCHANGED error
              ELSE /\ pc' = "fetch"
                   /\ UNCHANGED <<cat_i, all_markets, error>>
    /\ feed_i' = 1
    /\ all_articles' = <<>>
    /\ category_markets' = <<>>
    /\ collected' = NoneCollected
    /\ UNCHANGED <<successful, entry, pending, unique_markets, limited_markets, output,
                   returned, fetches, llm_calls, utilsVars, llmVars, enrichVars, configVars, diskVars,
                   idVars, feedVars, poolVars, saveVars, schedVars, delayVars>>

\* the for loop of lines 78-80 left after the first feed of the category
LastFeed_First(i) == TRUE

\* lines 78-80: feed i is the last one of the for loop over the category's
\* feeds
LastFeed(i) == i = Len(FeedsOf(Category))

\* lines 78-80: one process_feed call; after the last feed every article is
\* submitted to the pool (87-90)
FetchFeed ==
    /\ entry = "run_pipeline"
    /\ pc = "fetch"
    /\ \E attempts \in [1..max_retries -> FetchOutcomes] :
        LET articles == FeedArticles(feed_i, process_feed(attempts))
            last == LastFeed(feed_i)
        IN  /\ all_articles' = all_articles \o articles
            /\ fetches' = [fetches EXCEPT ![Category] = @ + 1]
            /\ feed_i' = feed_i + 1
            /\ pc' = IF last THEN "dispatch" ELSE "fetch"
            /\ pending' = IF last THEN 1..Len(all_articles') ELSE {}
    /\ UNCHANGED <<collected, successful,
                   entry, error, cat_i, category_markets, checkpoint_data,
                   all_markets, unique_markets, limited_markets, output,
                   returned, llm_calls, utilsVars, llmVars, enrichVars, configVars, diskVars,
                   idVars, feedVars, poolVars, saveVars, schedVars, delayVars>>

\* How the processing of one article ends: process_article_with_llm returns
\* a prediction, or returns None (every attempt failed, for instance on a
\* rate limit), or something raises inside process_article.
NoAnswer == [title |-> <<>>, description |-> <<>>]

ArticleOutcomes ==
    { [kind |-> "market", answer |-> a] : a \in Answers }
        \cup { [kind |-> k, answer |-> NoAnswer] :
                   k \in {"generation_failure", "exception"} }

\* process_article (34-59): the market (51-54), None when there is no
\* prediction (56), None when an exception was caught (57-59)
process_article(article, outcome) ==
    IF outcome.kind = "market"
    THEN Return(create_market_object(outcome.answer, article))
    ELSE None

\* the loop of lines 93-104 given up at the first task without a market
StillPending_StopOnFailure(tasks, i, r) == IF r.some THEN tasks \ {i} ELSE {}

\* the tasks the loop of lines 93-104 still waits for once task i, with
\* result r, is collected: a task without a market does not end the loop
StillPending(tasks, i, r) == tasks \ {i}

\* process_article in a worker and lines 93-104: task i completes with a
\* market or with None, and a market is appended
CollectTask(i) ==
    /\ entry = "run_pipeline"
    /\ pc = "dispatch"
    /\ \E outcome \in ArticleOutcomes :
        LET r == process_article(all_articles[i], outcome)
        IN  /\ pending' = StillPending(pending, i, r)
            /\ collected' = IF outcome.kind = "market"
                             THEN [collected EXCEPT !.market = @ + 1]
                             ELSE [collected EXCEPT !.failed = @ + 1]
            /\ llm_calls' = [llm_calls EXCEPT ![Category] = @ + 1]
            /\ since_call' = 0
            /\ category_markets' =
                   IF r.some THEN Append(category_markets, r.value)
                   ELSE category_markets
    /\ UNCHANGED <<successful, entry, pc, error, cat_i, feed_i, all_articles,
                   checkpoint_data, all_markets, unique_markets, limited_markets,
                   output, returned, fetches, utilsVars, llmVars, enrichVars, configVars, diskVars,
                   idVars, feedVars, saveVars, schedVars>>

\* the tasks complete in any order; which worker runs which task, and when
\* it started, is left out
CollectResult ==
    /\ \E i \in pending : CollectTask(i)
    /\ UNCHANGED poolVars

\* a with block that does not wait for the tasks still running
Drained_NoWait(tasks) == TRUE

\* line 85: the with block ends with executor.shutdown(wait=True), which
\* returns once every submitted task has returned
Drained(tasks) == tasks = {}

\* lines 107-114 and 152-154: dedupe and truncate the category, save its
\* checkpoint (the write may fail), merge it into the aggregate
FinishCategory ==
    /\ entry = "run_pipeline"
    /\ pc = "dispatch"
    /\ Drained(pending)
    /\ LET limited == SliceTo(deduplicate_markets(category_markets),
                              markets_per_category)
       IN  /\ \E outcome \in WriteOutcomes :
                checkpoints' = [checkpoints EXCEPT
                                  ![Category] = save_checkpoint(limited, @, outcome)]
           /\ all_markets' = all_markets \o limited
    /\ NextCategory
    /\ saves' = [saves EXCEPT ![Category] = @ + 1]
    /\ UNCHANGED <<collected, successful,
                   entry, error, feed_i, all_articles, pending, category_markets,
                   checkpoint_data, unique_markets, limited_markets, output,
                   returned, fetches, llm_calls, utilsVars, llmVars, enrichVars, configVars, output_file,
                   summary_file, backup_file, idVars, feedVars, poolVars, schedVars,
                   delayVars>>

\* line 157
GlobalDedupe ==
    /\ entry = "run_pipeline"
    /\ pc = "global_dedupe"
    /\ unique_markets' = deduplicate_markets(all_markets)
    /\ pc' = "global_quota"
    /\ UNCHANGED <<collected, successful,
                   entry, error, cat_i, feed_i, all_articles, pending,
                   category_markets, checkpoint_data, all_markets, limited_markets,
                   output, returned, fetches, llm_calls, utilsVars, llmVars, enrichVars, configVars, diskVars,
                   idVars, feedVars, poolVars, saveVars, schedVars, delayVars>>

\* lines 160-163
GlobalQuota ==
    /\ entry = "run_pipeline"
    /\ pc = "global_quota"
    /\ limited_markets' =
           limit_markets_per_category(unique_markets, markets_per_category)
    /\ pc' = "format_output"
    /\ UNCHANGED <<collected, successful,
                   entry, error, cat_i, feed_i, all_articles, pending,
                   category_markets, checkpoint_data, all_markets, unique_markets,
                   output, returned, fetches, llm_calls, utilsVars, llmVars, enrichVars, configVars, diskVars,
                   idVars, feedVars, poolVars, saveVars, schedVars, delayVars>>

\* line 166
FormatOutput ==
    /\ entry = "run_pipeline"
    /\ pc = "format_output"
    /\ output' = format_final_output(limited_markets)
    /\ pc' = "persist"
    /\ UNCHANGED <<collected, successful,
                   entry, error, cat_i, feed_i, all_articles, pending,
                   category_markets, checkpoint_data, all_markets, unique_markets,
                   limited_markets, returned, fetches, llm_calls, utilsVars, llmVars, enrichVars, configVars,
                   diskVars, idVars, feedVars, poolVars, saveVars, schedVars,
                   delayVars>>

\* save_output_to_file (output_formatter.py 112-161): the file afterwards;
\* every exception is caught (line 160)
save_output_to_file(out, file, outcome) ==
    CASE outcome = "ok" -> JsonFile(out.eventsData[1].markets)
      [] outcome = "open_fails" -> file
      [] outcome = "dump_fails" -> CorruptFile

\* StrapiService.send_markets (strapi_service.py 161-220): the markets are
\* sent one by one (198-208); sends[k] says whether send_market returned a
\* response for the k-th one.  The successes are returned (220), the
\* failed_markets list is only counted in a log line (217-218).
RECURSIVE SendLoop(_, _, _, _)
SendLoop(ms, sends, k, successful_responses) ==
    IF k > Len(ms) THEN successful_responses
    ELSE SendLoop(ms, sends, k + 1,
                  IF sends[k] THEN Append(successful_responses, ms[k])
                  ELSE successful_responses)

send_markets(ms, sends) == SendLoop(ms, sends, 1, <<>>)

\* save_output_to_file, lines 141-154: the backup file afterwards.  It is
\* written, with every market, only when send_markets returned an empty
\* list; a failed write is caught (153-154).
BackupFile(ms, sent, file, outcome) ==
    IF sent # <<>> THEN file
    ELSE CASE outcome = "ok" -> JsonFile(ms)
           [] outcome = "open_fails" -> file
           [] outcome = "dump_fails" -> CorruptFile

\* lines 169-180: save_output_to_file writes the output (the write may fail,
\* which skips the rest, line 160); is_configured() is true (the URL and the
\* token are literals, strapi_service.py 24-41), so a non-empty list of
\* markets is sent and the backup decided on; the output is returned and
\* the locals of run_pipeline and of process_category are gone
Persist ==
    /\ entry = "run_pipeline"
    /\ pc = "persist"
    /\ \E outcome \in WriteOutcomes :
        /\ output_file' = save_output_to_file(output, output_file, outcome)
        /\ IF outcome = "ok" /\ output.eventsData[1].markets # <<>>
           THEN LET ms == output.eventsData[1].markets
                IN  \E sends \in [1..Len(ms) -> BOOLEAN], backup \in WriteOutcomes :
                      /\ successful' = Return(send_markets(ms, sends))
                      /\ backup_file' =
                             BackupFile(ms, successful'.value, backup_file, backup)
           ELSE UNCHANGED <<successful, backup_file>>
    /\ returned' = TRUE
    /\ pc' = "done"
    /\ cat_i' = 1
    /\ feed_i' = 1
    /\ all_articles' = <<>>
    /\ pending' = {}
    /\ collected' = NoneCollected
    /\ category_markets' = <<>>
    /\ checkpoint_data' = None
    /\ all_markets' = <<>>
    /\ unique_markets' = <<>>
    /\ limited_markets' = <<>>
    /\ UNCHANGED <<entry, error, output, fetches, llm_calls, utilsVars, llmVars, enrichVars,
                   configVars, checkpoints, summary_file, idVars, feedVars, poolVars,
                   saveVars, schedVars, delayVars>>

Next ==
    \/ StartRun
    \/ LoadCheckpoint
    \/ FetchFeed
    \/ CollectResult
    \/ FinishCategory
    \/ GlobalDedupe
    \/ GlobalQuota
    \/ FormatOutput
    \/ Persist

Spec == Init /\ [][Next]_vars

(***************************************************************************)
(* One run of run_pipeline on an empty checkpoints directory, and the      *)
(* same run under the assumption that every call made returns: the single  *)
(* thread of run_pipeline (and the pool it waits for) keeps taking steps.  *)
(***************************************************************************)
FirstRun == pc = "start" /\ StartRun

NextRun ==
    \/ FirstRun
    \/ LoadCheckpoint
    \/ FetchFeed
    \/ CollectResult
    \/ FinishCategory
    \/ GlobalDedupe
    \/ GlobalQuota
    \/ FormatOutput
    \/ Persist

SpecRun == Init /\ [][NextRun]_vars

SpecRunLive == SpecRun /\ WF_vars(NextRun)

(***************************************************************************)
(* C7, C8: the checkpoint store in run_pipeline.                           *)
(***************************************************************************)
OutputMarkets == output.eventsData[1].markets

\* C7: a category for which a checkpoint of K >= 0 markets was saved is
\* never fetched or generated for by a later run (whenever the run fetches
\* or generates for a category, load_checkpoint returned no list for it),
\* and in the run's output a category taken from its checkpoint (no fetch
\* was made for it) has exactly the markets of that checkpoint.
C7_CheckpointResumability ==
    entry = "run_pipeline" =>
        /\ pc \in {"fetch", "dispatch"} => ~checkpoint_data.some
        /\ pc = "done" =>
              \A c \in Categories :
                  fetches[c] = 0 =>
                      CategoryMarkets(OutputMarkets, c) = checkpoints[c].data

\* C8: load_checkpoint returns None, and raises nothing, when the file is
\* absent and when it does not parse, and run_pipeline then goes on to fetch
\* the category; the category is left only after each of its feeds was
\* fetched and each of its articles' results collected.
C8_LoadFailureReprocesses ==
    [][ /\ (entry = "run_pipeline" /\ pc = "load"
              /\ checkpoints[Category].kind \in {"absent", "corrupt"})
           => (checkpoint_data' = None /\ pc' = "fetch" /\ error' = "none")
        /\ (entry = "run_pipeline" /\ pc = "dispatch" /\ pc' # "dispatch")
           => /\ pending = {}
              /\ fetches[Category] = Len(FeedsOf(Category))
              /\ llm_calls[Category] = Len(all_articles)
      ]_vars

\* a category being fetched whose checkpoint file does not parse
C8_Witness ==
    /\ entry = "run_pipeline"
    /\ pc = "fetch"
    /\ checkpoints[Category].kind = "corrupt"
    /\ checkpoint_data = None
    /\ fetches[Category] = 0

(***************************************************************************)
(* C14: failed articles in process_category.                               *)
(***************************************************************************)
\* C14: an article whose generation fails on every attempt, or whose
\* processing raises, adds no market to the category (the accumulator holds
\* one market per article that produced one), it ends neither the
\* collection nor the run, and the category is left only when the result
\* of every dispatched article has been collected.
C14_FailedArticleIsDropped ==
    [][ (entry = "run_pipeline" /\ pc = "dispatch")
           => /\ pc' # "aborted" /\ error' = "none"
              /\ Len(category_markets') = collected'.market
              /\ collected'.failed # collected.failed
                    => (category_markets' = category_markets /\ pc' = "dispatch")
              /\ pc' # "dispatch"
                    => /\ pending = {}
                       /\ collected.market + collected.failed = Len(all_articles)
      ]_vars

\* two articles dispatched and collected: one failed, the other one
\* produced a market
C14_Witness ==
    /\ entry = "run_pipeline"
    /\ pc = "dispatch"
    /\ pending = {}
    /\ Len(all_articles) = 2
    /\ collected = [market |-> 1, failed |-> 1]
    /\ Len(category_markets) = 1

(***************************************************************************)
(* C16-C19: the output of run_pipeline.                                    *)
(***************************************************************************)
OutputBuilt == entry = "run_pipeline" /\ pc \in {"persist", "done"}

\* C16: in the output of run_pipeline every category has at most
\* markets_per_category markets, and no two markets, of one category or of
\* two, have the same normalized title or the same description.
C16_OutputQuotaAndUniqueness ==
    OutputBuilt =>
        /\ \A c \in Categories : CountIn(OutputMarkets, c) <= markets_per_category
        /\ NoDuplicates(OutputMarkets)

\* a run that loaded a checkpoint holding more markets than the quota now
\* configured, and whose global passes cut the aggregate
C16_Witness ==
    /\ entry = "run_pipeline"
    /\ pc = "persist"
    /\ \E c \in Categories :
          /\ fetches[c] = 0
          /\ checkpoints[c].kind = "json"
          /\ Len(checkpoints[c].data) > markets_per_category
    /\ Len(OutputMarkets) < Len(all_markets)
    /\ OutputMarkets # <<>>

\* the category was processed in this run and all its feeds came back empty
EmptyCategory(c) == fetches[c] = Len(FeedsOf(c)) /\ llm_calls[c] = 0

\* C17: a run in which every feed of a category came back without articles
\* has processed every other category as well when it ends, has returned,
\* and has no market of that category in its output; and every run ends.
C17_EmptyCategoryRunCompletes ==
    /\ [](\A c \in Categories :
            (entry = "run_pipeline" /\ pc = "done" /\ EmptyCategory(c))
                => /\ returned
                   /\ CountIn(OutputMarkets, c) = 0
                   /\ \A d \in Categories : fetches[d] = Len(FeedsOf(d)))
    /\ <>(pc = "done" /\ returned)

\* a finished run whose first category was empty and whose second one has
\* a market in the output
C17_Witness ==
    /\ entry = "run_pipeline"
    /\ pc = "done"
    /\ EmptyCategory(FeedCategories[1])
    /\ CountIn(OutputMarkets, FeedCategories[2]) > 0

\* C18: when the last category got one article from each of two feeds, the
\* two titles being equal once case-folded and trimmed, and a market was
\* generated for both, the output built has exactly 1 market of that category.
C18_SameStoryYieldsOneMarket ==
    ( /\ entry = "run_pipeline"
      /\ pc = "persist"
      /\ Len(all_articles) = 2
      /\ all_articles[1].feed # all_articles[2].feed
      /\ normalized_title(all_articles[1]) = normalized_title(all_articles[2])
      /\ collected = [market |-> 2, failed |-> 0] )
        => CountIn(OutputMarkets, Category) = 1

\* C19: when the markets collected for the last category are unique and
\* more than markets_per_category, the output built has, for that category,
\* exactly the first markets_per_category of them in the order collected.
C19_SurplusCategoryKeepsFirstMarkets ==
    ( /\ entry = "run_pipeline"
      /\ pc = "persist"
      /\ fetches[Category] > 0
      /\ NoDuplicates(category_markets)
      /\ Len(category_markets) > markets_per_category )
        => CategoryMarkets(OutputMarkets, Category)
               = SubSeq(category_markets, 1, markets_per_category)

(***************************************************************************)
(* C20: the publish step of save_output_to_file.                           *)
(***************************************************************************)
InBackup(m) ==
    /\ backup_file.kind = "json"
    /\ \E k \in 1..Len(backup_file.data) : backup_file.data[k] = m

WasSent(m) == \E k \in 1..Len(successful.value) : successful.value[k] = m

\* C20: once the run has written its output and the publish step has run,
\* every market of the output that the publish collaborator did not take is
\* in the backup file, also when only some of the markets failed.
C20_UnsentMarketsAreBackedUp ==
    (entry = "run_pipeline" /\ pc = "done" /\ successful.some)
        => \A k \in 1..Len(OutputMarkets) :
               ~WasSent(OutputMarkets[k]) => InBackup(OutputMarkets[k])

(***************************************************************************)
(* run_comprehensive_pipeline (run_full_pipeline_30_per_category.py).      *)
(***************************************************************************)
FullCategory == target_categories[cat_i]

InitFull ==
    /\ UtilsIdle
    /\ LLMIdle
    /\ EnrichIdle
    /\ IdsIdle
    /\ FeedIdle
    /\ entry = "run_comprehensive_pipeline"
    /\ pc = "start"
    /\ checkpoints = [c \in Categories |-> AbsentFile]
    /\ output_file = AbsentFile
    /\ summary_file = AbsentFile
    /\ backup_file = AbsentFile
    /\ RunReset
    /\ SchedIdle

\* the for loops of lines 68 and 85 without the checks of lines 69 and 86
TargetMet_Never(created, target) == FALSE

\* lines 69-70 and 86-87: `if len(category_markets) >= 30: break`
TargetMet(created, target) == created >= target

\* lines 23-57: the run starts on the first category.  The target, the
\* literal 30 of the file, is any number up to MaxQuota here.
FullStart ==
    /\ entry = "run_comprehensive_pipeline"
    /\ pc = "start"
    /\ pc' = "feeds"
    /\ \E target \in 1..MaxQuota : markets_per_category' = target
    /\ UNCHANGED <<collected, successful,
                   entry, error, cat_i, feed_i, all_articles, pending,
                   category_markets, checkpoint_data, all_markets, unique_markets,
                   limited_markets, output, returned, fetches, llm_calls,
                   utilsVars, llmVars, enrichVars, diskVars, idVars,
                   feedVars, poolVars, saveVars, schedVars, delayVars>>

\* lines 68-82: the next feed of the category, unless the target is met; a
\* feed that raises (119-121) or yields nothing is passed over
FullFetchFeed ==
    /\ entry = "run_comprehensive_pipeline"
    /\ pc = "feeds"
    /\ feed_i <= Len(FeedsOf(FullCategory))
    /\ ~TargetMet(Len(category_markets), markets_per_category)
    /\ \E n \in 0..MaxArticles :
        /\ all_articles' =
               [k \in 1..n |-> [category |-> FullCategory, feed |-> feed_i, n |-> k]]
        /\ pending' = 1..n
        /\ IF n = 0
           THEN /\ feed_i' = feed_i + 1
                /\ pc' = "feeds"
           ELSE /\ feed_i' = feed_i
                /\ pc' = "articles"
    /\ fetches' = [fetches EXCEPT ![FullCategory] = @ + 1]
    /\ UNCHANGED <<collected, successful,
                   entry, error, cat_i, category_markets, checkpoint_data,
                   all_markets, unique_markets, limited_markets, output, returned,
                   llm_calls, utilsVars, llmVars, enrichVars, configVars, diskVars,
                   idVars, feedVars, poolVars, saveVars, schedVars, delayVars>>

\* "rate_limit_delay": 4.5 seconds, in tenths of a second
rate_limit_delay == 45

\* lines 109-113: the delay slept after an article, none once the category
\* has its target of markets
DelayAfterArticle(created, target) == IF created < target THEN rate_limit_delay ELSE 0

\* lines 85-117: the feed's next article, in order; the feed is left after
\* its last article or once the target is met
FullProcessArticle ==
    /\ entry = "run_comprehensive_pipeline"
    /\ pc = "articles"
    /\ LET i == CHOOSE k \in pending : \A j \in pending : k <= j
       IN  /\ pending' = pending \ {i}
           /\ \/ UNCHANGED category_markets
              \/ \E a \in Answers :
                   category_markets' =
                       Append(category_markets,
                              create_market_object(a, all_articles[i]))
    /\ llm_calls' = [llm_calls EXCEPT ![FullCategory] = @ + 1]
    /\ since_call' = DelayAfterArticle(Len(category_markets'), markets_per_category)
    /\ IF pending' = {} \/ TargetMet(Len(category_markets'), markets_per_category)
       THEN /\ feed_i' = feed_i + 1
            /\ pc' = "feeds"
       ELSE /\ feed_i' = feed_i
            /\ pc' = "articles"
    /\ UNCHANGED <<collected, successful,
                   entry, error, cat_i, all_articles, checkpoint_data, all_markets,
                   unique_markets, limited_markets, output, returned, fetches,
                   utilsVars, llmVars, enrichVars, configVars, diskVars, idVars,
                   feedVars, poolVars, saveVars, schedVars>>

\* lines 123-136: dedupe and truncate the category, merge it
FullFinishCategory ==
    /\ entry = "run_comprehensive_pipeline"
    /\ pc = "feeds"
    /\ \/ feed_i > Len(FeedsOf(FullCategory))
       \/ TargetMet(Len(category_markets), markets_per_category)
    /\ all_markets' =
           all_markets \o SliceTo(deduplicate_markets(category_markets),
                                  markets_per_category)
    /\ category_markets' = <<>>
    /\ feed_i' = 1
    /\ all_articles' = <<>>
    /\ IF cat_i < Len(target_categories)
       THEN /\ cat_i' = cat_i + 1
            /\ pc' = "feeds"
       ELSE /\ cat_i' = cat_i
            /\ pc' = "final"
    /\ UNCHANGED <<collected, successful,
                   entry, error, pending, checkpoint_data, unique_markets,
                   limited_markets, output, returned, fetches, llm_calls,
                   utilsVars, llmVars, enrichVars, configVars, diskVars, idVars,
                   feedVars, poolVars, saveVars, schedVars, delayVars>>

\* lines 143-146: the final dedupe and the output structure
FullFormat ==
    /\ entry = "run_comprehensive_pipeline"
    /\ pc = "final"
    /\ unique_markets' = deduplicate_markets(all_markets)
    /\ output' = format_final_output(unique_markets')
    /\ pc' = "write_output"
    /\ UNCHANGED <<collected, successful,
                   entry, error, cat_i, feed_i, all_articles, pending,
                   category_markets, checkpoint_data, all_markets, limited_markets,
                   returned, fetches, llm_calls, utilsVars, llmVars, enrichVars, configVars, diskVars,
                   idVars, feedVars, poolVars, saveVars, schedVars, delayVars>>

\* lines 149-153: open and json.dump outside any try: a failure propagates
FullWriteOutput ==
    /\ entry = "run_comprehensive_pipeline"
    /\ pc = "write_output"
    /\ \E outcome \in WriteOutcomes :
        /\ output_file' = save_output_to_file(output, output_file, outcome)
        /\ IF outcome = "ok"
           THEN /\ pc' = "write_summary"
                /\ UNCHANGED error
           ELSE /\ pc' = "aborted"
                /\ error' = "output_write"
    /\ UNCHANGED <<collected, successful,
                   entry, cat_i, feed_i, all_articles, pending, category_markets,
                   checkpoint_data, all_markets, unique_markets, limited_markets,
                   output, returned, fetches, llm_calls, utilsVars, llmVars, enrichVars, configVars,
                   checkpoints, summary_file, backup_file, idVars, feedVars,
                   poolVars, saveVars, schedVars, delayVars>>

\* lines 156-188: the summary, written outside any try as well, then return
FullWriteSummary ==
    /\ entry = "run_comprehensive_pipeline"
    /\ pc = "write_summary"
    /\ \E outcome \in WriteOutcomes :
        /\ summary_file' =
               CASE outcome = "ok" -> JsonFile(<<Len(unique_markets)>>)
                 [] outcome = "open_fails" -> summary_file
                 [] outcome = "dump_fails" -> CorruptFile
        /\ IF outcome = "ok"
           THEN /\ pc' = "done"
                /\ returned' = TRUE
                /\ UNCHANGED error
           ELSE /\ pc' = "aborted"
                /\ error' = "summary_write"
                /\ UNCHANGED returned
    /\ UNCHANGED <<collected, successful,
                   entry, cat_i, feed_i, all_articles, pending, category_markets,
                   checkpoint_data, all_markets, unique_markets, limited_markets,
                   output, fetches, llm_calls, utilsVars, llmVars, enrichVars, configVars, checkpoints,
                   output_file, backup_file, idVars, feedVars, poolVars, saveVars,
                   schedVars, delayVars>>

NextFull ==
    \/ FullStart
    \/ FullFetchFeed
    \/ FullProcessArticle
    \/ FullFinishCategory
    \/ FullFormat
    \/ FullWriteOutput
    \/ FullWriteSummary

SpecFull == InitFull /\ [][NextFull]_vars

\* C9: a failed write of a checkpoint or of the output artifact is swallowed:
\* no run, of either entry point, is ended by it.
C9_WriteFailureNeverAborts ==
    ~(pc = "aborted" /\ error \in {"checkpoint_write", "output_write", "summary_write"})

(***************************************************************************)
(* Answers of the generation collaborator, as parsed JSON objects: the     *)
(* fields that are present, the endTime string and the tags value.         *)
(***************************************************************************)
required_fields == { "title", "endTime", "description", "tags" }

\* AVAILABLE_TAGS (config.py 65-114), four of its entries
AVAILABLE_TAGS == { "Bitcoin", "Ethereum", "Crypto", "Cricket" }

List(items) == [is_list |-> TRUE, items |-> items]

TagValues ==
    { List(<< "Bitcoin", "Ethereum", "Crypto" >>),
      List(<< "Bitcoin", "Ethereum" >>),
      List(<< "Bitcoin", "Ethereum", "Crypto", "Cricket" >>),
      List(<< "Bitcoin", "Ethereum", "Astrology" >>),
      \* a JSON string of three characters, not a list
      [is_list |-> FALSE, items |-> << "B", "T", "C" >>] }

EndTimes ==
    { \* 2025-12-31T23:59:59Z
      << "2", "0", "2", "5", "-", "1", "2", "-", "3", "1", "T",
         "2", "3", ":", "5", "9", ":", "5", "9", "Z" >>,
      \* 2025-12-31T23:59:59
      << "2", "0", "2", "5", "-", "1", "2", "-", "3", "1", "T",
         "2", "3", ":", "5", "9", ":", "5", "9" >>,
      \* 2025-13-45T99:99:99Z
      << "2", "0", "2", "5", "-", "1", "3", "-", "4", "5", "T",
         "9", "9", ":", "9", "9", ":", "9", "9", "Z" >>,
      \* TBDZ
      << "T", "B", "D", "Z" >> }

LLMAnswers == [present : SUBSET required_fields, endTime : EndTimes, tags : TagValues]

\* str.endswith(c) and c in str
endswith(s, c) == s # <<>> /\ s[Len(s)] = c
contains(s, c) == \E i \in 1..Len(s) : s[i] = c

\* v.replace('Z', '+00:00')
RECURSIVE replace_Z(_)
replace_Z(s) ==
    IF s = <<>> THEN <<>>
    ELSE (IF Head(s) = "Z" THEN << "+", "0", "0", ":", "0", "0" >> ELSE << Head(s) >>)
             \o replace_Z(Tail(s))

Digits == { "0", "1", "2", "3", "4", "5", "6", "7", "8", "9" }

DigitVal(c) ==
    CASE c = "0" -> 0 [] c = "1" -> 1 [] c = "2" -> 2 [] c = "3" -> 3 [] c = "4" -> 4
      [] c = "5" -> 5 [] c = "6" -> 6 [] c = "7" -> 7 [] c = "8" -> 8 [] c = "9" -> 9

\* the two characters of s at i and i + 1 are digits of a number in lo..hi
TwoDigits(s, i, lo, hi) ==
    /\ s[i] \in Digits
    /\ s[i + 1] \in Digits
    /\ DigitVal(s[i]) * 10 + DigitVal(s[i + 1]) \in lo..hi

\* YYYY-MM-DD (the day is checked against 31, not against the month)
IsIsoDate(s) ==
    /\ Len(s) = 10
    /\ \A i \in 1..4 : s[i] \in Digits
    /\ s[5] = "-"
    /\ TwoDigits(s, 6, 1, 12)
    /\ s[8] = "-"
    /\ TwoDigits(s, 9, 1, 31)

\* HH, HH:MM or HH:MM:SS
IsIsoTime(s) ==
    /\ Len(s) \in {2, 5, 8}
    /\ TwoDigits(s, 1, 0, 23)
    /\ Len(s) >= 5 => (s[3] = ":" /\ TwoDigits(s, 4, 0, 59))
    /\ Len(s) = 8 => (s[6] = ":" /\ TwoDigits(s, 7, 0, 59))

\* +HH:MM or -HH:MM
IsIsoOffset(s) ==
    /\ Len(s) = 6
    /\ s[1] \in {"+", "-"}
    /\ TwoDigits(s, 2, 0, 23)
    /\ s[4] = ":"
    /\ TwoDigits(s, 5, 0, 59)

\* datetime.fromisoformat(s) returns (rather than raises): a date, then
\* optionally any one separator character, a time and an offset
fromisoformat_ok(s) ==
    \/ IsIsoDate(s)
    \/ /\ Len(s) > 11
       /\ IsIsoDate(SubSeq(s, 1, 10))
       /\ LET rest == SubSeq(s, 12, Len(s))
          IN  \/ IsIsoTime(rest)
              \/ /\ Len(rest) > 6
                 /\ IsIsoTime(SubSeq(rest, 1, Len(rest) - 6))
                 /\ IsIsoOffset(SubSeq(rest, Len(rest) - 5, Len(rest)))

\* validate_prediction_data without the loop of lines 181-184
validate_prediction_data_NoVocabulary(data) ==
    /\ required_fields \subseteq data.present
    /\ data.tags.is_list /\ Len(data.tags.items) = 3
    /\ endswith(data.endTime, "Z") /\ contains(data.endTime, "T")

(***************************************************************************)
(* validate_prediction_data (llm_service.py 158-196).                      *)
(***************************************************************************)
validate_prediction_data(data) ==
    /\ required_fields \subseteq data.present                       \* 171-174
    /\ data.tags.is_list /\ Len(data.tags.items) = 3                \* 177-179
    /\ \A k \in 1..Len(data.tags.items) :
           data.tags.items[k] \in AVAILABLE_TAGS                    \* 181-184
    /\ endswith(data.endTime, "Z") /\ contains(data.endTime, "T")   \* 187-194

(***************************************************************************)
(* PredictionMarket (langchain_integration.py 28-53): four required       *)
(* fields, validate_end_time and validate_tags.                            *)
(***************************************************************************)
validate_end_time(v) == fromisoformat_ok(replace_Z(v)) /\ endswith(v, "Z")

validate_tags(v) == Len(v) = 3

PredictionMarket(data) ==
    /\ required_fields \subseteq data.present
    /\ validate_end_time(data.endTime)
    /\ data.tags.is_list
    /\ validate_tags(data.tags.items)

\* generate_prediction_market (118-163) once chain.invoke has returned the
\* parsed answer: result["article"] is set and result['title'] is read, so
\* an answer without a title ends in the except clause (None).  The parser
\* (JsonOutputParser, not part of the repository) is given PredictionMarket;
\* enforced says whether it applies that schema to the answer.
generate_prediction_market(data, enforced) ==
    IF (enforced => PredictionMarket(data)) /\ "title" \in data.present
    THEN Return(data)
    ELSE None

(***************************************************************************)
(* SpecLLM: process_article_with_llm (llm_service.py 198-241) on one       *)
(* article, with generate_prediction_content (49-156).                     *)
(***************************************************************************)
InitLLM ==
    /\ UtilsIdle
    /\ PipelineIdle
    /\ EnrichIdle
    /\ IdsIdle
    /\ FeedIdle
    /\ llm_pc = "langchain"
    /\ path = "none"
    /\ retry_count = 0
    /\ api_calls = 0
    /\ prediction_data = None
    /\ last_failure = NoFailure

\* line 211 raises ImportError (217-218), or creating the chain raises
\* (langchain_integration.py 131, caught at 161): on to the direct API
LangChainUnavailable ==
    /\ llm_pc = "langchain"
    /\ llm_pc' = "initialize"
    /\ UNCHANGED <<path, retry_count, api_calls, prediction_data, last_failure,
                   utilsVars, diskVars, runVars, configVars, enrichVars, idVars,
                   feedVars, poolVars, saveVars, schedVars, delayVars>>

\* lines 213-216: the chain is invoked; it raises, or returns an answer
\* that generate_prediction_market returns or drops
LangChainInvoke ==
    /\ llm_pc = "langchain"
    /\ api_calls' = api_calls + 1
    /\ \/ /\ llm_pc' = "initialize"
          /\ UNCHANGED <<path, prediction_data>>
       \/ \E data \in LLMAnswers, enforced \in BOOLEAN :
            LET r == generate_prediction_market(data, enforced)
            IN  IF r.some
                THEN /\ prediction_data' = r
                     /\ path' = "langchain"
                     /\ llm_pc' = "done"
                ELSE /\ llm_pc' = "initialize"
                     /\ UNCHANGED <<path, prediction_data>>
    /\ UNCHANGED <<retry_count, last_failure, utilsVars, diskVars, runVars, configVars, enrichVars,
                   idVars, feedVars, poolVars, saveVars, schedVars, delayVars>>

\* line 223: initialize_llm returns, or raises (no API key), which the
\* outer except (239-241) turns into None
InitializeLLM ==
    /\ llm_pc = "initialize"
    /\ \/ llm_pc' = "attempt"
       \/ llm_pc' = "done"
    /\ UNCHANGED <<path, retry_count, api_calls, prediction_data, last_failure,
                   utilsVars, diskVars, runVars, configVars, enrichVars, idVars,
                   feedVars, poolVars, saveVars, schedVars, delayVars>>

\* What a pass of the loop can raise (117-132), as the words of str(e) the
\* code looks for and where the exception comes from: the collaborator
\* refusing the call for quota or rate (HTTP 429), the collaborator failing
\* otherwise, or json.loads on the answer's text, whose message ends with
\* the position of the error ("... line 9 column 2 (char 429)").
Exceptions ==
    { [origin |-> "rate_limit", message |-> << "429", "Resource", "exhausted", "quota" >>],
      [origin |-> "rate_limit", message |-> << "Rate Limit", "exceeded" >>],
      [origin |-> "collaborator", message |-> << "500", "Internal", "error" >>],
      [origin |-> "parse", message |-> << "Expecting", "value", "char", "0" >>],
      [origin |-> "parse", message |-> << "Expecting", "delimiter", "char", "429" >>] }

\* str.lower() on a word of a message
LowerWord(w) == IF w = "Rate Limit" THEN "rate limit" ELSE w

Contains(message, word) == \E k \in 1..Len(message) : message[k] = word

\* line 144: "quota" in error_str or "rate limit" in error_str or
\* "429" in str(e), error_str being str(e).lower()
IsRateLimit(message) ==
    LET error_str == [k \in 1..Len(message) |-> LowerWord(message[k])]
    IN  \/ Contains(error_str, "quota")
        \/ Contains(error_str, "rate limit")
        \/ Contains(message, "429")

\* a backoff that does not grow
wait_time_Flat(retries) == 60

\* line 146
wait_time(retries) == 60 + (retries * 30)

\* lines 142-153: the except clause, on exception e with retry_count
\* retries: how the failure is classified and the time slept
Failure(e, retries) ==
    IF IsRateLimit(e.message)
    THEN [origin |-> e.origin, class |-> "rate_limited",
          wait |-> wait_time(retries), slot |-> retries]
    ELSE [origin |-> e.origin, class |-> "other", wait |-> 5, slot |-> retries]

\* lines 137-140: an answer that does not validate costs a retry and a
\* sleep of 1 second
Invalid(retries) ==
    [origin |-> "validation", class |-> "invalid", wait |-> 1, slot |-> retries]

\* one pass of the while loop of lines 116-153 that raises: the call
\* raises, or the text of its answer does not parse
AttemptFails ==
    /\ llm_pc = "attempt"
    /\ retry_count < max_retries
    /\ api_calls' = api_calls + 1
    /\ \E e \in Exceptions : last_failure' = Failure(e, retry_count)
    /\ retry_count' = retry_count + 1
    /\ UNCHANGED <<llm_pc, path, prediction_data>>
    /\ UNCHANGED <<utilsVars, diskVars, runVars, configVars, enrichVars, idVars, feedVars,
                   poolVars, saveVars, schedVars, delayVars>>

\* one pass of the loop whose answer parses: it is returned if it validates
\* (135-136, 226-236), and costs a retry if not (137-140)
AttemptAnswers ==
    /\ llm_pc = "attempt"
    /\ retry_count < max_retries
    /\ api_calls' = api_calls + 1
    /\ \E data \in LLMAnswers :
        IF validate_prediction_data(data)
        THEN /\ prediction_data' = Return(data)
             /\ path' = "direct"
             /\ llm_pc' = "done"
             /\ UNCHANGED <<retry_count, last_failure>>
        ELSE /\ retry_count' = retry_count + 1
             /\ last_failure' = Invalid(retry_count)
             /\ UNCHANGED <<llm_pc, path, prediction_data>>
    /\ UNCHANGED <<utilsVars, diskVars, runVars, configVars, enrichVars, idVars, feedVars,
                   poolVars, saveVars, schedVars, delayVars>>

\* lines 155-156 and 238: the retries are used up, None is returned
GiveUp ==
    /\ llm_pc = "attempt"
    /\ retry_count >= max_retries
    /\ llm_pc' = "done"
    /\ UNCHANGED <<path, retry_count, api_calls, prediction_data, last_failure,
                   utilsVars, diskVars, runVars, configVars, enrichVars, idVars,
                   feedVars, poolVars, saveVars, schedVars, delayVars>>

NextLLM ==
    \/ LangChainUnavailable
    \/ LangChainInvoke
    \/ InitializeLLM
    \/ AttemptFails
    \/ AttemptAnswers
    \/ GiveUp

SpecLLM == InitLLM /\ [][NextLLM]_vars

\* the endTime is a UTC instant: it ends in Z and parses as a timestamp
IsUtcInstant(v) == endswith(v, "Z") /\ fromisoformat_ok(replace_Z(v))

SchemaHolds(data) ==
    /\ required_fields \subseteq data.present
    /\ data.tags.is_list
    /\ Len(data.tags.items) = 3
    /\ \A k \in 1..Len(data.tags.items) : data.tags.items[k] \in AVAILABLE_TAGS
    /\ IsUtcInstant(data.endTime)

\* C10: whatever process_article_with_llm returns, by the LangChain path or
\* by the direct path, has the four fields, exactly 3 tags, all of them in
\* AVAILABLE_TAGS, and an endTime that parses as a UTC instant.
C10_ReturnedMarketMeetsSchema ==
    (llm_pc = "done" /\ prediction_data.some) => SchemaHolds(prediction_data.value)

\* the answer process_article_with_llm got from generate_prediction_content
ReturnedByDirectPath == llm_pc = "done" /\ path = "direct" /\ prediction_data.some

\* C11: an answer that validate_prediction_data accepts, and so that
\* generate_prediction_content returns, has an endTime that ends in Z and
\* parses as a timestamp.
C11_AcceptedEndTimeIsInstant ==
    ReturnedByDirectPath => IsUtcInstant(prediction_data.value.endTime)

FieldsAndTagsHold(data) ==
    /\ required_fields \subseteq data.present
    /\ data.tags.is_list
    /\ Len(data.tags.items) = 3
    /\ \A k \in 1..Len(data.tags.items) : data.tags.items[k] \in AVAILABLE_TAGS

\* C12: an answer returned by generate_prediction_content has all four
\* fields, and its tags are a list of exactly 3 members of AVAILABLE_TAGS;
\* an answer that breaks one of these is rejected, never returned.
C12_AcceptedHasFieldsAndTags ==
    ReturnedByDirectPath => FieldsAndTagsHold(prediction_data.value)

\* an answer is returned after an earlier attempt was rejected or failed
C12_Witness == ReturnedByDirectPath /\ retry_count >= 1

\* C13: for one article, no more than max_retries calls are made to the
\* generation collaborator, whatever way the attempts fail.
C13_AtMostMaxRetriesCalls == api_calls <= max_retries

\* the stage of run_pipeline a value of pc belongs to
PerCategory == {"load", "fetch", "dispatch"}

\* the last category of the for loop of line 139 is being processed
LastCategory == cat_i = Len(FeedCategories)

\* C23: a run goes through its stages in this order only: start, then the
\* categories one after the other in the order of the registry (for each,
\* the load of its checkpoint, then, unless the checkpoint is used, the
\* fetch of all its feeds, then the dispatch and collection of all its
\* articles), then global dedupe, global quota, format output, persist,
\* done.  A stage is left only once it is finished: no article is
\* dispatched before every feed of the category was fetched, and the
\* category is left only when no task is pending.
C23_StagesInFixedOrder ==
    [][ entry = "run_pipeline" =>
          /\ pc' # pc =>
                \/ pc \in {"start", "done"} /\ pc' = "load" /\ cat_i' = 1
                \/ pc = "load" /\ pc' = "fetch" /\ cat_i' = cat_i /\ feed_i' = 1
                \/ pc = "load" /\ pc' = "aborted"
                \/ /\ pc = "fetch" /\ pc' = "dispatch" /\ cat_i' = cat_i
                   /\ fetches'[Category] = Len(FeedsOf(Category))
                   /\ pending' = 1..Len(all_articles')
                \/ /\ pc \in {"load", "dispatch"} /\ pc' = "global_dedupe"
                   /\ LastCategory /\ pending = {}
                \/ /\ pc = "dispatch" /\ pc' = "load" /\ pending = {}
                   /\ cat_i' = cat_i + 1
                \/ pc = "global_dedupe" /\ pc' = "global_quota"
                \/ pc = "global_quota" /\ pc' = "format_output"
                \/ pc = "format_output" /\ pc' = "persist"
                \/ pc = "persist" /\ pc' = "done" /\ returned'
          /\ (pc' = pc /\ pc \in PerCategory) =>
                \/ cat_i' = cat_i
                \/ pc = "load" /\ cat_i' = cat_i + 1 /\ Truthy(checkpoint_data')
          /\ fetches' # fetches =>
                \/ pc = "fetch" /\ fetches'[Category] = feed_i /\ llm_calls[Category] = 0
                \/ pc \in {"start", "done"}
          /\ llm_calls' # llm_calls =>
                \/ pc = "dispatch" /\ fetches[Category] = Len(FeedsOf(Category))
                \/ pc \in {"start", "done"}
      ]_vars

\* a second run is done: it took the first category from its checkpoint and
\* fetched and generated for the second one
C23_Witness ==
    /\ entry = "run_pipeline"
    /\ pc = "done"
    /\ returned
    /\ fetches[FeedCategories[1]] = 0
    /\ fetches[FeedCategories[2]] = Len(FeedsOf(FeedCategories[2]))
    /\ llm_calls[FeedCategories[2]] > 0

\* a step that calls save_checkpoint: it is a step of the coordinating
\* thread taken in the dispatch stage once no task is pending, it writes
\* the file of the category being processed, and what it writes, unless
\* the write fails, is the category's collected markets, deduplicated and
\* cut to the quota
SaveIsAfterDrain ==
    saves' # saves =>
        \/ pc \in {"start", "done"} /\ saves' = NoCalls
        \/ /\ pc = "dispatch"
           /\ pending = {}
           /\ collected.market + collected.failed = Len(all_articles)
           /\ saves' = [saves EXCEPT ![Category] = @ + 1]
           /\ \A c \in Categories \ {Category} : checkpoints'[c] = checkpoints[c]
           /\ \/ checkpoints'[Category] = checkpoints[Category]
              \/ checkpoints'[Category].kind = "corrupt"
              \/ LET written == checkpoints'[Category].data
                 IN  /\ checkpoints'[Category].kind = "json"
                     /\ written = SliceTo(deduplicate_markets(category_markets),
                                          markets_per_category)
                     /\ Len(written) <= markets_per_category
                     /\ NoDuplicates(written)

\* a checkpoint file changes only in a step that calls save_checkpoint
OnlySaveWrites == checkpoints' # checkpoints => saves' # saves

\* C25 as stated: in every run each category's checkpoint is written
\* exactly once, by the coordinating thread, after the category's tasks
\* have all completed and its markets have been deduplicated and truncated.
C25_CheckpointWrittenOncePerRun ==
    [][ entry = "run_pipeline" =>
          /\ SaveIsAfterDrain
          /\ OnlySaveWrites
          /\ (pc = "persist" /\ pc' = "done") => \A c \in Categories : saves[c] = 1
      ]_vars

\* C25, amended: in every run a category's checkpoint is written at most
\* once: exactly once, as above, when the category is processed, and not
\* at all when the category is taken from its checkpoint.
C25_CheckpointWrittenOnceIfProcessed ==
    [][ entry = "run_pipeline" =>
          /\ SaveIsAfterDrain
          /\ OnlySaveWrites
          /\ \A c \in Categories : saves'[c] <= 1
          /\ (pc = "load" /\ Truthy(checkpoint_data')) => saves' = saves
          /\ (pc = "persist" /\ pc' = "done") =>
                \A c \in Categories :
                    saves[c] = IF fetches[c] = Len(FeedsOf(c)) THEN 1 ELSE 0
      ]_vars

\* a run is done that took one category from its checkpoint, without
\* writing it, and processed the other one and wrote its checkpoint
C25_Witness ==
    /\ entry = "run_pipeline"
    /\ pc = "done"
    /\ \E c, d \in Categories :
          /\ fetches[c] = 0 /\ saves[c] = 0
          /\ llm_calls[d] > 0 /\ saves[d] = 1

(***************************************************************************)
(* SpecPool: one run of run_pipeline on an empty checkpoints directory,    *)
(* with the workers of process_category's pool (pipeline.py 85-104): a     *)
(* submitted task waits in the executor's queue until a worker takes it.   *)
(***************************************************************************)
\* the tasks submitted and not yet taken by a worker
Queued == pending \ executing

\* a pool that starts a thread for every task submitted
PoolHasFreeWorker_Unbounded(running) == TRUE

\* ThreadPoolExecutor(max_workers=5): a task is taken from the queue only
\* by one of max_workers threads, each running one task at a time
PoolHasFreeWorker(running) == Cardinality(running) < max_workers

\* a worker takes the task at the head of the queue, which is in the order
\* of submission (87-90), and calls process_article
StartTask ==
    /\ entry = "run_pipeline"
    /\ pc = "dispatch"
    /\ Queued # {}
    /\ PoolHasFreeWorker(executing)
    /\ executing' = executing \cup { CHOOSE i \in Queued : \A j \in Queued : i <= j }
    /\ UNCHANGED <<utilsVars, diskVars, runVars, llmVars, configVars, enrichVars, idVars,
                   feedVars, saveVars, schedVars, delayVars>>

\* a running task returns and the as_completed loop collects its result
CompleteTask ==
    \E i \in executing :
        /\ CollectTask(i)
        /\ executing' = executing \ {i}

NextPool ==
    \/ FirstRun
    \/ LoadCheckpoint
    \/ FetchFeed
    \/ StartTask
    \/ CompleteTask
    \/ FinishCategory
    \/ GlobalDedupe
    \/ GlobalQuota
    \/ FormatOutput
    \/ Persist

SpecPool == Init /\ [][NextPool]_vars

HasFailed == last_failure.origin # "none"

C28_BadAnswerIsGenericFailure ==
    (HasFailed /\ last_failure.origin \in {"parse", "validation"}) =>
        /\ retry_count = last_failure.slot + 1
        /\ last_failure.wait = 5

\* C29: a failed attempt is classified as rate-limited exactly when the
\* collaborator refused the call for quota or rate; a failure to parse or
\* to validate the answer never is.
C29_RateLimitedIffSignalled ==
    HasFailed =>
        (last_failure.class = "rate_limited" <=> last_failure.origin = "rate_limit")

(***************************************************************************)
(* SpecEnrich: enrich_article_data (article_processor.py 99-135) on one    *)
(* article of a feed.  A text is a tuple of characters; an optional text   *)
(* is None or Return(text).                                                *)
(***************************************************************************)
Texts == SeqsUpTo({"w", " "}, MaxText)

OptionalTexts == {None} \cup { Return(t) : t \in Texts }

\* a feed entry as feedparser yields it: the summary and the content (the
\* value of content[0]) may be absent
FeedEntries == [summary : OptionalTexts, content : OptionalTexts]

\* dict.get(key, default) on a key that may be absent
Get(value, default) == IF value.some THEN value ELSE default

\* feed_parser.py 121-138: the summary defaults to "", the content to the
\* summary when the entry has none or an empty one
extract_article_data(feed_entry) ==
    LET summary == Get(feed_entry.summary, Return(<<>>))
    IN  [ summary |-> summary,
          content |-> IF Truthy(feed_entry.content)
                      THEN feed_entry.content
                      ELSE summary,
          processed_content |-> None ]

\* ' '.join(text.split()): runs of whitespace become one space, leading and
\* trailing whitespace goes
RECURSIVE SqueezeSpaces(_)
SqueezeSpaces(text) ==
    IF Len(text) < 2 THEN text
    ELSE IF IsSpace(text[1]) /\ IsSpace(text[2]) THEN SqueezeSpaces(Tail(text))
    ELSE <<text[1]>> \o SqueezeSpaces(Tail(text))

SplitJoin(text) == strip(SqueezeSpaces(text))

Ellipsis == << ".", ".", "." >>

\* lines 79-97; text.split() on None raises AttributeError
clean_article_text(text, max_len) ==
    IF ~text.some THEN Raise
    ELSE LET joined == SplitJoin(text.value)
         IN  IF Len(joined) > max_len
             THEN Return(SubSeq(joined, 1, max_len) \o Ellipsis)
             ELSE Return(joined)

\* what one round of the loop gets from its collaborators: the page
\* requests.get returned, None when fetch_article_content caught an
\* exception (38-43), and whether BeautifulSoup raises on it (75-77)
RoundOutcomes == [html : OptionalTexts, soup_raises : BOOLEAN]

\* lines 45-77, the page being given as the text soup.get_text finds in it:
\* phrases are stripped and joined by single spaces, "" on an exception
extract_article_text(html_content, soup_raises) ==
    IF soup_raises THEN <<>> ELSE SplitJoin(html_content)

\* lines 118-122: the text a round found, None if it found none
RoundText(outcome) ==
    IF ~Truthy(outcome.html) THEN None
    ELSE LET article_text ==
                 extract_article_text(outcome.html.value, outcome.soup_raises)
         IN  IF article_text # <<>> THEN Return(article_text) ELSE None

FallbackContent_UsesContent(data) ==
    clean_article_text(data.content, max_length)

\* line 133: clean_article_text(article_data.get("summary", ""))
FallbackContent(data) ==
    clean_article_text(Get(data.summary, Return(<<>>)), max_length)

\* the function returns article_data with processed_content set, or the
\* exception clean_article_text raised leaves it
Finish(cleaned) ==
    /\ UNCHANGED raw_article
    /\ IF cleaned.raised
       THEN enrich_pc' = "raised" /\ UNCHANGED <<article_data, enrich_returned>>
       ELSE /\ enrich_pc' = "done"
            /\ article_data' = [article_data EXCEPT !.processed_content = cleaned]
            /\ enrich_returned' = "article_data"

InitEnrich ==
    /\ UtilsIdle
    /\ PipelineIdle
    /\ LLMIdle
    /\ IdsIdle
    /\ FeedIdle
    /\ enrich_pc = "check"
    /\ \E feed_entry \in FeedEntries : article_data = extract_article_data(feed_entry)
    /\ raw_article = article_data
    /\ enrich_returned = "nothing"
    /\ fetch_retry_count = 0
    /\ enrich_log = <<>>
    /\ found = None

\* line 111: content the feed gave, longer than the threshold
HasContent ==
    /\ Truthy(article_data.content)
    /\ Len(article_data.content.value) > content_threshold

\* lines 111-113
UseContent ==
    /\ enrich_pc = "check"
    /\ HasContent
    /\ Finish(clean_article_text(article_data.content, max_length))
    /\ UNCHANGED <<fetch_retry_count, enrich_log, found, utilsVars, diskVars, runVars, llmVars, configVars,
                   idVars, feedVars, poolVars, saveVars, schedVars, delayVars>>

\* lines 111, 116
StartFetching ==
    /\ enrich_pc = "check"
    /\ ~HasContent
    /\ enrich_pc' = "fetch"
    /\ fetch_retry_count' = 0
    /\ UNCHANGED <<article_data, enrich_log, found, raw_article, enrich_returned>>
    /\ UNCHANGED <<utilsVars, diskVars, runVars, llmVars, configVars, idVars,
                   feedVars, poolVars, saveVars, schedVars, delayVars>>

\* a loop that sleeps after every round that found nothing
SleepsAfterRound_Always(retries) == TRUE

\* lines 127-129: after a round that found nothing, retry_count being
\* already incremented, the loop sleeps if another round follows
SleepsAfterRound(retries) == retries < max_retries

\* lines 117-129: one round of the loop
FetchRound ==
    /\ enrich_pc = "fetch"
    /\ fetch_retry_count < max_retries
    /\ \E outcome \in RoundOutcomes :
          LET article_text == RoundText(outcome)
          IN  IF article_text.some
              THEN /\ Finish(clean_article_text(article_text, max_length))
                   /\ found' = article_text
                   /\ enrich_log' = Append(enrich_log, "fetch_text")
                   /\ UNCHANGED fetch_retry_count
              ELSE /\ fetch_retry_count' = fetch_retry_count + 1
                   /\ enrich_log' = enrich_log \o
                         (IF SleepsAfterRound(fetch_retry_count')
                          THEN << "fetch_empty", "sleep" >>
                          ELSE << "fetch_empty" >>)
                   /\ UNCHANGED <<enrich_pc, article_data, found, raw_article, enrich_returned>>
    /\ UNCHANGED <<utilsVars, diskVars, runVars, llmVars, configVars, idVars, feedVars,
                   poolVars, saveVars, schedVars, delayVars>>

\* lines 117, 131-135: the loop is over, the summary is used
UseSummary ==
    /\ enrich_pc = "fetch"
    /\ fetch_retry_count >= max_retries
    /\ Finish(FallbackContent(article_data))
    /\ UNCHANGED <<fetch_retry_count, enrich_log, found, utilsVars, diskVars, runVars, llmVars, configVars,
                   idVars, feedVars, poolVars, saveVars, schedVars, delayVars>>

NextEnrich ==
    \/ UseContent
    \/ StartFetching
    \/ FetchRound
    \/ UseSummary

SpecEnrich == InitEnrich /\ [][NextEnrich]_vars

\* every round of the loop was made and none found a text
AllRoundsFailed == enrich_pc = "done" /\ fetch_retry_count = max_retries

\* a text collapsed and cut as clean_article_text documents it
IsCleaned(text) ==
    /\ \A k \in 1..Len(text) : IsSpace(text[k]) =>
          (k > 1 /\ k < Len(text) /\ ~IsSpace(text[k + 1]))
    /\ Len(text) <= max_length + Len(Ellipsis)

\* C15: enrich_article_data never raises; the record it returns has a
\* processed_content that is a string, possibly empty; and when every round
\* of the loop found nothing, it is the article's summary, cleaned.
C15_EnrichIsTotal ==
    /\ enrich_pc # "raised"
    /\ enrich_pc = "done" =>
          /\ article_data.processed_content.some
          /\ IsCleaned(article_data.processed_content.value)
    /\ AllRoundsFailed =>
          /\ article_data.summary.some
          /\ article_data.processed_content
                = clean_article_text(article_data.summary, max_length)

\* every round failed for an article whose short content differs from its
\* summary, and the summary was collapsed and cut
C15_Witness ==
    /\ AllRoundsFailed
    /\ article_data.content # article_data.summary
    /\ Len(article_data.summary.value) > max_length
    /\ article_data.processed_content.value # <<>>
    /\ article_data.processed_content.value[1] = "w"

IsFetch(event) == event \in {"fetch_empty", "fetch_text"}

\* the calls of fetch_article_content made so far
FetchCalls == Cardinality({ k \in 1..Len(enrich_log) : IsFetch(enrich_log[k]) })

\* C30: no fetch is made for an article whose content is longer than the
\* threshold.  Otherwise at most max_retries rounds are made; the round
\* that extracts a non-empty text is the last one and its text, cleaned,
\* is the result; without such a round all max_retries rounds are made.
\* The loop sleeps between two rounds, and only there: never before the
\* first round, after the last one, or after the round that succeeded.
C30_FetchRoundsAndSleeps ==
    /\ HasContent => enrich_log = <<>>
    /\ FetchCalls <= max_retries
    /\ \A k \in 1..Len(enrich_log) :
          /\ enrich_log[k] = "fetch_text" =>
                /\ k = Len(enrich_log)
                /\ enrich_pc = "done"
                /\ found.some /\ found.value # <<>>
                /\ article_data.processed_content
                      = clean_article_text(found, max_length)
          /\ enrich_log[k] = "sleep" =>
                /\ k > 1 /\ enrich_log[k - 1] = "fetch_empty"
                /\ IF k < Len(enrich_log)
                   THEN IsFetch(enrich_log[k + 1])
                   ELSE enrich_pc = "fetch" /\ fetch_retry_count < max_retries
          /\ (IsFetch(enrich_log[k]) /\ k < Len(enrich_log)) =>
                enrich_log[k + 1] = "sleep"
    /\ (enrich_pc = "done" /\ ~HasContent /\ ~found.some) =>
          FetchCalls = max_retries

\* every round found nothing: max_retries fetches with a sleep between
\* them and none after the last
C30_Witness ==
    /\ enrich_pc = "done"
    /\ enrich_log = << "fetch_empty", "sleep", "fetch_empty", "sleep", "fetch_empty" >>

\* C31: when enrich_article_data has returned, the record the caller passed
\* has the fields and values it had at the call, and the value returned is
\* another object than that record.
C31_InputRecordUnchanged ==
    enrich_pc = "done" =>
        /\ article_data = raw_article
        /\ enrich_returned # "article_data"

\* work of category c starts in this step: a feed fetch, a task taken by a
\* worker (article fetch, then generation), or a generation call counted
WorkStarts(c) ==
    \/ fetches'[c] = fetches[c] + 1
    \/ llm_calls'[c] = llm_calls[c] + 1
    \/ \E i \in executing' \ executing : all_articles[i].category = c

\* category d is over: its checkpoint was loaded and used, or its tasks
\* were all collected and its checkpoint save has returned
CategoryOver(d) ==
    \/ saves[d] = 1
    \/ fetches[d] = 0 /\ llm_calls[d] = 0 /\ saves[d] = 0

\* C32: in a run of run_pipeline, work of a category starts only while it
\* is the category of the for loop, every category before it being over
\* (pool drained and checkpoint save returned, or checkpoint loaded); a
\* feed fetch starts only with no task of any pool queued or running, and
\* tasks exist only in the dispatch stage of the current category.
C32_OneCategoryAtATime ==
    [][entry = "run_pipeline" =>
        /\ \A c \in Categories :
              WorkStarts(c) =>
                /\ c = Category
                /\ saves[c] = 0
                /\ \A k \in 1..(cat_i - 1) : CategoryOver(FeedCategories[k])
                /\ fetches'[c] # fetches[c] => pending = {} /\ executing = {}
        /\ (pending' # {} \/ executing' # {}) =>
              pc' = "dispatch" /\ executing' \subseteq pending'
      ]_vars

\* a worker runs a task of the second category after the first category's
\* tasks were collected and its checkpoint saved
C32_Witness ==
    /\ entry = "run_pipeline"
    /\ pc = "dispatch"
    /\ cat_i = 2
    /\ executing # {}
    /\ llm_calls[FeedCategories[1]] > 0
    /\ saves[FeedCategories[1]] = 1

\* a generation call is issued in this step
GenerationCall == \E c \in Categories : llm_calls'[c] = llm_calls[c] + 1

\* C33: a generation call of a run is issued only if the run made none
\* before or has slept the rate-limit delay since the last one.
C33_DelayBetweenGenerationCalls ==
    [][GenerationCall => (since_call = -1 \/ since_call >= rate_limit_delay)]_vars

\* the markets of a list
Range(ms) == { ms[k] : k \in 1..Len(ms) }

\* market is what create_market_object makes of an answer for the article
IsCreatedFrom(market, article) ==
    /\ \E a \in Answers :
          market.title = a.title /\ market.description = a.description
    /\ market.category = article.category
    /\ market.resolutionSource = link(article)

\* C34: a market enters the category's accumulator only as the record
\* create_market_object made for the article of the task collected, with
\* that article's category and link; and every later stage (per-category
\* dedupe and truncation, checkpoint save and load, merge, global dedupe,
\* global quota, formatting, writing the output) only passes on, unchanged,
\* markets of the stage before it.  So each market of the final output is
\* field for field a record create_market_object returned.
C34_MarketsNeverModified ==
    [][entry = "run_pipeline" =>
        /\ \A m \in Range(category_markets') \ Range(category_markets) :
              /\ pc = "dispatch"
              /\ \E i \in pending \ pending' : IsCreatedFrom(m, all_articles[i])
        /\ \A c \in Categories :
              (checkpoints'[c] # checkpoints[c] /\ checkpoints'[c].kind = "json") =>
                  Range(checkpoints'[c].data) \subseteq Range(category_markets)
        /\ Range(all_markets') \subseteq
              Range(all_markets) \cup Range(category_markets)
                  \cup Range(checkpoints[Category].data)
        /\ Range(unique_markets') \subseteq
              Range(unique_markets) \cup Range(all_markets)
        /\ Range(limited_markets') \subseteq
              Range(limited_markets) \cup Range(unique_markets)
        /\ Range(output'.eventsData[1].markets) \subseteq
              Range(OutputMarkets) \cup Range(limited_markets)
        /\ (output_file' # output_file /\ output_file'.kind = "json") =>
              output_file'.data = OutputMarkets
      ]_vars

\* an output with markets of a category loaded from its checkpoint and of
\* a category processed in this run, after a dedupe or a quota pass that
\* removed a market
C34_Witness ==
    /\ entry = "run_pipeline"
    /\ pc = "persist"
    /\ Len(OutputMarkets) >= 2
    /\ Len(all_markets) > Len(OutputMarkets)
    /\ \E m \in Range(OutputMarkets) : fetches[m.category] = 0
    /\ \E m \in Range(OutputMarkets) : llm_calls[m.category] > 0

\* category c was taken from its checkpoint in this run
LoadedFromCheckpoint(c) == fetches[c] = 0

\* C35 as stated: the global quota pass returns the list the global dedupe
\* pass returned, whatever categories were processed or loaded.
C35_GlobalQuotaIsIdentity ==
    (entry = "run_pipeline" /\ pc = "format_output") =>
        limited_markets = unique_markets

\* C35 amended: the global quota pass returns the list the global dedupe
\* pass returned whenever no checkpoint loaded in the run holds more than
\* markets_per_category markets; in any case it keeps the order of the
\* markets it keeps, and what it removes are markets of categories loaded
\* from a checkpoint, never of a category processed in the run.
C35_GlobalQuotaIdentityUnlessLargeCheckpoint ==
    (entry = "run_pipeline" /\ pc = "format_output") =>
        /\ (\A c \in Categories :
                LoadedFromCheckpoint(c) =>
                    Len(checkpoints[c].data) <= markets_per_category)
              => limited_markets = unique_markets
        /\ \A c \in Categories :
              /\ CategoryMarkets(limited_markets, c)
                    = SliceTo(CategoryMarkets(unique_markets, c), markets_per_category)
              /\ ~LoadedFromCheckpoint(c) =>
                    CategoryMarkets(limited_markets, c)
                        = CategoryMarkets(unique_markets, c)
        /\ \A j, k \in 1..Len(limited_markets) :
              j < k =>
                \E a, b \in 1..Len(unique_markets) :
                    /\ a < b
                    /\ unique_markets[a] = limited_markets[j]
                    /\ unique_markets[b] = limited_markets[k]

\* a run that loaded a checkpoint holding exactly the quota and processed a
\* category that generated more unique markets than the quota: the global
\* quota pass had nothing to remove
C35_Witness ==
    /\ entry = "run_pipeline"
    /\ pc = "format_output"
    /\ \E c \in Categories :
          /\ LoadedFromCheckpoint(c)
          /\ Len(checkpoints[c].data) = markets_per_category
    /\ Len(deduplicate_markets(category_markets)) > markets_per_category
    /\ Len(limited_markets) > markets_per_category
    /\ limited_markets = unique_markets

\* the results the as_completed loop has examined so far
Examined == collected.market + collected.failed

\* C36: while a category's tasks are collected, in whatever order they
\* complete, every dispatched article is either still awaited or was
\* examined once; the accumulator holds one market per task that returned
\* one, no two of one article and none of an article still awaited; a step
\* collects one task and appends at most its market; and the category is
\* deduplicated, truncated and merged into all_markets only once every
\* dispatched article was examined.
C36_EachResultCollectedOnce ==
    /\ []((entry = "run_pipeline" /\ pc = "dispatch") =>
            /\ Examined + Cardinality(pending) = Len(all_articles)
            /\ Len(category_markets) = collected.market
            /\ \A j, k \in 1..Len(category_markets) :
                  j # k => category_markets[j].resolutionSource
                             # category_markets[k].resolutionSource
            /\ \A m \in Range(category_markets), i \in pending :
                  m.resolutionSource # link(all_articles[i]))
    /\ [][(entry = "run_pipeline" /\ pc = "dispatch") =>
            /\ pending' # pending =>
                  /\ \E i \in pending : pending' = pending \ {i}
                  /\ Examined' = Examined + 1
                  /\ \/ category_markets' = category_markets
                     \/ \E i \in pending, a \in Answers :
                          category_markets' =
                              Append(category_markets,
                                     create_market_object(a, all_articles[i]))
            /\ category_markets' # category_markets => pending' # pending
            /\ all_markets' # all_markets =>
                  /\ pending = {}
                  /\ Examined = Len(all_articles)
                  /\ all_markets' = all_markets \o
                        SliceTo(deduplicate_markets(category_markets),
                                markets_per_category)
          ]_vars

\* every task of a category collected, the tasks having completed out of
\* the order of their submission: the market of a later article was
\* appended before the market of an earlier one
C36_Witness ==
    /\ entry = "run_pipeline"
    /\ pc = "dispatch"
    /\ pending = {}
    /\ Len(category_markets) >= 2
    /\ \E a, b \in 1..Len(all_articles) :
          /\ a < b
          /\ category_markets[1].resolutionSource = link(all_articles[b])
          /\ category_markets[2].resolutionSource = link(all_articles[a])

\* the orders of a list of n items
Orders(n) == { f \in [1..n -> 1..n] : \A j, k \in 1..n : j # k => f[j] # f[k] }

Reordered(ms, order) == [k \in 1..Len(ms) |-> ms[order[k]]]

\* C37: deduplicate_markets retains as many markets of a list of markets
\* of one category as of the same markets in any other order.
C37_DedupCountIsOrderIndependent ==
    (LastOp = "dedup" /\ Len(op) = 1 /\ Cardinality(CategoriesOf(arg)) <= 1) =>
        \A order \in Orders(Len(arg)) :
            Len(deduplicate_markets(Reordered(arg, order))) = Len(result)

HexDigits == { "0", "f" }

\* uuid.uuid4().hex
Uuid4Hex == [1..uuid_hex_len -> HexDigits]

\* line 28: f"market_{uuid.uuid4().hex[:8]}"
generate_market_id(hex) == << "market_" >> \o SubSeq(hex, 1, id_hex_len)

\* the ids of the markets created so far, in the order of creation (line 47)
MarketIds == [k \in 1..Len(uuids) |-> generate_market_id(uuids[k])]

InitIds ==
    /\ UtilsIdle
    /\ PipelineIdle
    /\ LLMIdle
    /\ EnrichIdle
    /\ FeedIdle
    /\ uuids = <<>>

\* create_market_object, line 47: a fresh uuid4 is drawn, taken here to
\* differ from every uuid4 drawn before, and the id made of it; no id is
\* compared with the ids given before
CreateMarket ==
    /\ Len(uuids) < MaxCreated
    /\ \E hex \in Uuid4Hex :
          /\ \A k \in 1..Len(uuids) : uuids[k] # hex
          /\ uuids' = Append(uuids, hex)
    /\ UNCHANGED <<utilsVars, diskVars, runVars, llmVars, configVars, enrichVars, feedVars,
                   poolVars, saveVars, schedVars, delayVars>>

NextIds == CreateMarket

SpecIds == InitIds /\ [][NextIds]_vars

\* C21: no two markets created in one run have the same id.
C21_MarketIdsAreUnique ==
    \A j, k \in 1..Len(MarketIds) : j # k => MarketIds[j] # MarketIds[k]

(***************************************************************************)
(* SpecFeed: process_feed (feed_parser.py 142-191) on one FeedConfig.      *)
(***************************************************************************)
FallbackUrls == << "fallback1", "fallback2", "fallback3" >>

\* config.py 9-12: fallback_urls is None, the default, or a list of URLs
FeedConfigs ==
    [ url : {"primary"},
      fallback_urls : {None} \cup
          { Return(SubSeq(FallbackUrls, 1, n)) : n \in 0..MaxFallbacks } ]

InitFeed ==
    /\ UtilsIdle
    /\ PipelineIdle
    /\ LLMIdle
    /\ EnrichIdle
    /\ IdsIdle
    /\ feed_pc = "primary"
    /\ feed_config \in FeedConfigs
    /\ feed_retry_count = 0
    /\ fallback_i = 1
    /\ article_count = 0
    /\ fetch_log = <<>>

\* one fetch_feed call (21-48) followed, when it returned a feed, by
\* filter_recent_articles (72-100): what the call is recorded as
Fetched(url, outcome) == [url |-> url, outcome |-> outcome]

\* lines 156-174: one round of the while loop; a feed that was returned
\* ends the loop (169) whatever the number of its recent entries
FetchPrimary ==
    /\ feed_pc = "primary"
    /\ feed_retry_count < max_retries
    /\ \E outcome \in FetchOutcomes :
          /\ fetch_log' = Append(fetch_log, Fetched(feed_config.url, outcome))
          /\ IF outcome.some
             THEN /\ article_count' = article_count + outcome.value
                  /\ feed_retry_count' = feed_retry_count
                  /\ feed_pc' = "after_loop"
             ELSE /\ article_count' = article_count
                  /\ feed_retry_count' = feed_retry_count + 1
                  /\ feed_pc' = IF feed_retry_count' < max_retries
                                THEN "primary" ELSE "after_loop"
    /\ UNCHANGED <<feed_config, fallback_i>>
    /\ UNCHANGED <<utilsVars, diskVars, runVars, llmVars, configVars, enrichVars, idVars,
                   poolVars, saveVars, schedVars, delayVars>>

\* line 176: the fallback URLs are used when the list of articles is empty
UsesFallbacks == article_count = 0 /\ Truthy(feed_config.fallback_urls)

\* lines 176, 190-191
ReturnArticles ==
    /\ feed_pc = "after_loop"
    /\ ~UsesFallbacks
    /\ feed_pc' = "done"
    /\ UNCHANGED <<feed_config, feed_retry_count, fallback_i, article_count, fetch_log>>
    /\ UNCHANGED <<utilsVars, diskVars, runVars, llmVars, configVars, enrichVars, idVars,
                   poolVars, saveVars, schedVars, delayVars>>

\* lines 176-178
EnterFallbacks ==
    /\ feed_pc = "after_loop"
    /\ UsesFallbacks
    /\ feed_pc' = "fallback"
    /\ fallback_i' = 1
    /\ UNCHANGED <<feed_config, feed_retry_count, article_count, fetch_log>>
    /\ UNCHANGED <<utilsVars, diskVars, runVars, llmVars, configVars, enrichVars, idVars,
                   poolVars, saveVars, schedVars, delayVars>>

\* lines 187-188 and the end of the for loop: the loop is left once the
\* list has an article, or after the last fallback URL
FallbackDone(outcome, n, i) ==
    n > 0 \/ i > Len(feed_config.fallback_urls.value)

\* lines 178-188: one pass of the for loop
FetchFallback ==
    /\ feed_pc = "fallback"
    /\ \E outcome \in FetchOutcomes :
          LET url == feed_config.fallback_urls.value[fallback_i]
          IN  /\ fetch_log' = Append(fetch_log, Fetched(url, outcome))
              /\ article_count' = article_count + (IF outcome.some THEN outcome.value ELSE 0)
              /\ fallback_i' = fallback_i + 1
              /\ feed_pc' = IF FallbackDone(outcome, article_count', fallback_i')
                            THEN "done" ELSE "fallback"
    /\ UNCHANGED <<feed_config, feed_retry_count>>
    /\ UNCHANGED <<utilsVars, diskVars, runVars, llmVars, configVars, enrichVars, idVars,
                   poolVars, saveVars, schedVars, delayVars>>

NextFeed ==
    \/ FetchPrimary
    \/ ReturnArticles
    \/ EnterFallbacks
    \/ FetchFallback

SpecFeed == InitFeed /\ [][NextFeed]_vars

IsPrimary(k) == fetch_log[k].url = feed_config.url

\* the fetches of the primary URL, and those of fallback URLs, in order
PrimaryFetches == SelectSeq(fetch_log, LAMBDA f : f.url = feed_config.url)
FallbackFetches == SelectSeq(fetch_log, LAMBDA f : f.url # feed_config.url)

\* C22: the primary URL is fetched at most max_retries times and not again
\* after a fetch of it succeeded; a fallback URL is fetched only after
\* max_retries fetches of the primary URL that all failed, the fallback
\* URLs are fetched in their configured order, and none is fetched after a
\* fallback fetch that succeeded.
C22_RetriesThenFallbacksInOrder ==
    /\ Len(PrimaryFetches) <= max_retries
    /\ \A j, k \in 1..Len(fetch_log) :
          (j < k /\ IsPrimary(j) /\ fetch_log[j].outcome.some) => ~IsPrimary(k)
    /\ FallbackFetches # <<>> =>
          /\ Len(PrimaryFetches) = max_retries
          /\ \A k \in 1..Len(PrimaryFetches) : ~PrimaryFetches[k].outcome.some
    /\ \A k \in 1..Len(FallbackFetches) :
          FallbackFetches[k].url = feed_config.fallback_urls.value[k]
    /\ \A j, k \in 1..Len(FallbackFetches) :
          j < k => ~FallbackFetches[j].outcome.some

(***************************************************************************)
(* SpecSched: the web service (app.py) and its scheduler threads, each     *)
(* running run_scheduler (scheduler.py 68-104), which starts a pipeline    *)
(* run as a subprocess (24-66) and waits for it.  Every run works in the   *)
(* service's working directory, so on the same checkpoints/ files.  One    *)
(* category's file is followed.                                            *)
(***************************************************************************)
ThreadIds == 1..MaxThreads

\* a thread that has not been created has the highest ids
Unborn == { t \in ThreadIds : threads[t] = "unborn" }

\* app.py 15-16 and 27-29: the module is imported, the first scheduler
\* thread is started and has not run yet
InitSched ==
    /\ UtilsIdle
    /\ LLMIdle
    /\ EnrichIdle
    /\ IdsIdle
    /\ FeedIdle
    /\ entry = "none"
    /\ pc = "idle"
    /\ checkpoints = [c \in Categories |-> AbsentFile]
    /\ output_file = AbsentFile
    /\ summary_file = AbsentFile
    /\ backup_file = AbsentFile
    /\ RunReset
    /\ scheduler_running = FALSE
    /\ threads = [t \in ThreadIds |-> IF t = 1 THEN "started" ELSE "unborn"]
    /\ category_file = "absent"
    /\ children = [t \in ThreadIds |-> 0]
    /\ last_run = [t \in ThreadIds |-> "none"]
    /\ stop_returned = FALSE

SchedFrame ==
    UNCHANGED <<utilsVars, diskVars, runVars, llmVars, configVars, enrichVars, idVars,
                feedVars, poolVars, saveVars, delayVars>>

\* app.py 19-24 and scheduler.py 76-86, 44-51: the thread sets the flag and
\* run_scheduler starts the first pipeline run at once, as a subprocess
ThreadRuns(t) ==
    /\ threads[t] = "started"
    /\ scheduler_running' = TRUE
    /\ threads' = [threads EXCEPT ![t] = "load"]
    /\ children' = [children EXCEPT ![t] = @ + 1]
    /\ UNCHANGED <<category_file, last_run, stop_returned>>
    /\ SchedFrame

\* pipeline.py 141-147 in the subprocess: the category's checkpoint is
\* loaded; a non-empty one is used and the run writes no checkpoint for the
\* category, otherwise the category is processed
RunLoadsCheckpoint(t) ==
    /\ threads[t] = "load"
    /\ threads' = [threads EXCEPT ![t] = IF category_file = "markets"
                                         THEN "finishing" ELSE "process"]
    /\ UNCHANGED <<scheduler_running, category_file, children, last_run, stop_returned>>
    /\ SchedFrame

\* pipeline.py 150-152: the category has been processed and its checkpoint
\* is saved, with the markets found or with an empty list
RunSavesCheckpoint(t) ==
    /\ threads[t] = "process"
    /\ \E written \in {"markets", "empty"} : category_file' = written
    /\ threads' = [threads EXCEPT ![t] = "finishing"]
    /\ UNCHANGED <<scheduler_running, children, last_run, stop_returned>>
    /\ SchedFrame

\* a run_pipeline that returns while its subprocess is still running
communicate_NoWait(live) == live

\* scheduler.py 53: process.communicate() returns when the subprocess has
\* exited; the live subprocesses of the loop afterwards
communicate(live) == live - 1

\* scheduler.py 55-62: True for return code 0, False otherwise
RunResults == { "succeeded", "failed" }

\* scheduler.py 53-66, 88-91: the subprocess ends, having completed or, at
\* any point, failed; run_pipeline returns and the thread goes to sleep.
\* run_scheduler reads no flag: the loop of line 88 has no exit.
RunEnds(t) ==
    /\ threads[t] \in {"load", "process", "finishing"}
    /\ \E returned_value \in RunResults :
          /\ returned_value = "succeeded" => threads[t] = "finishing"
          /\ last_run' = [last_run EXCEPT ![t] = returned_value]
    /\ children' = [children EXCEPT ![t] = communicate(@)]
    /\ threads' = [threads EXCEPT ![t] = "sleep"]
    /\ UNCHANGED <<scheduler_running, category_file, stop_returned>>
    /\ SchedFrame

\* scheduler.py 91-94: the interval has passed, the next run starts
Tick(t) ==
    /\ threads[t] = "sleep"
    /\ threads' = [threads EXCEPT ![t] = "load"]
    /\ children' = [children EXCEPT ![t] = @ + 1]
    /\ UNCHANGED <<scheduler_running, category_file, last_run, stop_returned>>
    /\ SchedFrame

\* app.py 110-120: POST /scheduler/stop clears the flag, and nothing else
stop_scheduler_endpoint ==
    /\ scheduler_running' = FALSE
    /\ stop_returned' = TRUE
    /\ UNCHANGED <<threads, category_file, children, last_run>>
    /\ SchedFrame

\* app.py 122-142: POST /scheduler/start starts a new scheduler thread when
\* the flag is clear
start_scheduler_endpoint ==
    /\ Unborn # {}
    /\ IF ~scheduler_running
       THEN LET t == CHOOSE u \in Unborn : \A v \in Unborn : u <= v
            IN  threads' = [threads EXCEPT ![t] = "started"]
       ELSE UNCHANGED threads
    /\ stop_returned' = FALSE
    /\ UNCHANGED <<scheduler_running, category_file, children, last_run>>
    /\ SchedFrame

NextSched ==
    \/ \E t \in ThreadIds : ThreadRuns(t)
    \/ \E t \in ThreadIds : RunLoadsCheckpoint(t)
    \/ \E t \in ThreadIds : RunSavesCheckpoint(t)
    \/ \E t \in ThreadIds : RunEnds(t)
    \/ \E t \in ThreadIds : Tick(t)
    \/ stop_scheduler_endpoint
    \/ start_scheduler_endpoint

SpecSched == InitSched /\ [][NextSched]_vars

\* a step of thread t's scheduler loop or of its subprocess
ThreadStep(t) ==
    \/ ThreadRuns(t)
    \/ RunLoadsCheckpoint(t)
    \/ RunSavesCheckpoint(t)
    \/ RunEnds(t)
    \/ Tick(t)

\* the same service under the assumption that every subprocess started
\* ends and every sleep returns: each thread keeps taking steps
SpecSchedLive == SpecSched /\ \A t \in ThreadIds : WF_vars(ThreadStep(t))

\* app.py 52: the "scheduler" field of GET /status
status_scheduler == IF scheduler_running THEN "running" ELSE "stopped"

\* the pipeline runs that are active and will write the category's file
ActiveWriters == { t \in ThreadIds : threads[t] = "process" }

\* C26: whatever the service is asked to do, no two pipeline runs that can
\* write the same category checkpoint file are active at the same time.
C26_NoTwoWritersOfOneCheckpoint == Cardinality(ActiveWriters) <= 1

\* C38: a scheduler loop has at most one pipeline subprocess alive and
\* starts one only when it has none; and whenever a run has ended, having
\* succeeded or failed, and the loop sleeps, the loop starts another run
\* later.
C38_RunsNeverOverlapAndRecur ==
    /\ [](\A t \in ThreadIds : children[t] <= 1)
    /\ [][\A t \in ThreadIds : children'[t] > children[t] => children[t] = 0]_vars
    /\ \A t \in ThreadIds, r \in RunResults :
          (threads[t] = "sleep" /\ last_run[t] = r) ~> (threads[t] = "load")

\* the loop of the first thread has started a run after a run that failed
C38_Witness ==
    /\ threads[1] = "load"
    /\ last_run[1] = "failed"
    /\ children[1] = 1

\* a scheduler loop is active: a thread is in run_scheduler
LoopActive == \E t \in ThreadIds : threads[t] \notin {"unborn", "started"}

\* C39: once POST /scheduler/stop has returned and until POST
\* /scheduler/start is called, no scheduler loop starts a pipeline run; and
\* GET /status reports the scheduler as running exactly when a scheduler
\* loop is active.
C39_StopStopsTheScheduler ==
    /\ [][stop_returned =>
            \A t \in ThreadIds : children'[t] <= children[t]]_vars
    /\ [](status_scheduler = "running" <=> LoopActive)

====
